---- MODULE Spec2Model ----
(***************************************************************************)
(* Model of the JFK RAG ingestion pipeline, query endpoint and Home page.  *)
(*                                                                         *)
(*   scripts/ingest-documents.js : validateEnvironment, extractPdfLinks,   *)
(*                                 downloadFile, the download loops,       *)
(*                                 splitTextIntoChunks, getEmbedding,      *)
(*                                 processPdfFile, ingestDocuments         *)
(*   second ingestion script     : downloadFile, downloadJFKDocuments,     *)
(*                                 extractTextFromPDF, splitIntoChunks,    *)
(*                                 processDocuments, ingestDocuments       *)
(*   pages/api/query.js          : handler (two versions; a third one in   *)
(*                                 pages/index.js)                         *)
(*   pages/index.js              : Home, handleSubmit                      *)
(*                                                                         *)
(* Strings are sequences of one-character strings; indices of the          *)
(* JavaScript string methods are 0-based, those of the sequences 1-based.  *)
(***************************************************************************)
EXTENDS Integers, Sequences, FiniteSets, TLC

VARIABLES
    fn,          \* the chunker running: "splitTextIntoChunks" or "splitIntoChunks"
    text,        \* its argument text
    chunkSize,   \* its argument chunkSize / size
    overlap,     \* its argument overlap
    startIndex,  \* its local startIndex
    chunks,      \* its local chunks
    windows,     \* history: the <<startIndex, endIndex>> of every chunk pushed by the loop
    cpc,         \* its position: "idle", "call", "loop", "returned"
    processor,   \* the ingestion loop running: "processPdfFile" or "processDocuments"
    dir,         \* the documents directory, as readdirSync lists it: <<[name, pdf]>>
    index,       \* the Pinecone index: record id -> metadata of the record
    run,         \* number of the ingestion run (process) under way
    ipc,         \* its position: "none", "start", "validate", "listing", "links",
                 \*   "downloading", "streaming", "list", "open", "chunking", "loop",
                 \*   "embedding", "upserting", "done", "exited", "killed"
    files,       \* the PDF files of the run, in processing order
    fileIdx,     \* the file being processed (1-based position in files)
    i,           \* chunk loop variable i
    processedChunks,       \* counter of the file being processed
    failedChunks,          \* counter of the file being processed (processPdfFile only)
    totalProcessedChunks,  \* counter of the run
    failures,    \* history: number of remote calls that failed so far
    embeds,      \* history: run -> the embedding requests issued, [file, chunk, ok]
    upserts,     \* history: run -> the upserts issued, [id, file, chunk, ok]
    reports,     \* history: run -> the per-file summaries logged, in order
    indexAfter,  \* history: run -> the ids of the index when the run ended
    passed,      \* history: run -> the chunks passed over without a request,
                 \*   [file, chunk, how]: "skipped" by the loop, "rejected" by getEmbedding
    trace,       \* history: run -> the remote calls issued and the delays waited by the
                 \*   chunk loops, in order: [kind, file, chunk, ms]
    env,         \* process.env: the credentials that are set
    exitCode,    \* exit status of the process of the run, NotExited while it runs
    page,        \* the listing page the archive serves: the file names of its
                 \*   matching links, in order
    pdfLinks,    \* the documents of the download loop (pdfLinks / limitedLinks / backupDocs)
    source,      \* where they come from: "primary" or "backup"
    linkIdx,     \* position of the download loop (1-based)
    downloadedFiles,  \* counter of the download loop
    redirects,   \* redirects followed by the download in flight
    fetchLog,    \* history: run -> what the download loops did, in order: [kind, name]
    handler,     \* the query handler serving the request: one of Handlers
    req,         \* its request: [method, body]
    hpc,         \* its position: "none", "received", "embedding", "searching",
                 \*   "generating", "done"
    matches,     \* its local matches
    calls,       \* history: the downstream calls it issued, in order: [stage, input]
    responses,   \* history: the HTTP responses it sent, in order:
                 \*   [status, error, answer, sources]
    settled,     \* history: the downstream calls that came back, in order:
                 \*   [stage, outcome]
    served,      \* history: the requests answered so far by the deployment, in
                 \*   order: [failed, status, error], failed the stage that failed
    query,       \* state of the Home page: the text of the input
    answer,      \* state of the Home page
    sources,     \* state of the Home page
    loading,     \* state of the Home page
    error,       \* state of the Home page
    fetching,    \* the Home page has a request to /api/query in flight
    sent,        \* history: the queries the Home page sent to /api/query, in order
    replies,     \* history: what came back for them, in order: the kind of result
    submits      \* history: number of submit events of the form

chunkerVars == <<fn, text, chunkSize, overlap, startIndex, chunks, windows, cpc>>

fetchVars == <<env, page, pdfLinks, source, linkIdx, downloadedFiles, redirects, fetchLog>>

handlerVars == <<handler, req, hpc, matches, calls, responses, settled, served>>

homeVars == <<query, answer, sources, loading, error, fetching, sent, replies, submits>>

webVars == <<handlerVars, homeVars>>

ingestVars == <<processor, dir, index, run, ipc, files, fileIdx, i, processedChunks,
                failedChunks, totalProcessedChunks, failures, embeds, upserts, reports,
                indexAfter, passed, trace, exitCode, env, page, pdfLinks, source, linkIdx,
                downloadedFiles, redirects, fetchLog>>

vars == <<fn, text, chunkSize, overlap, startIndex, chunks, windows, cpc,
          processor, dir, index, run, ipc, files, fileIdx, i, processedChunks,
          failedChunks, totalProcessedChunks, failures, embeds, upserts, reports,
          indexAfter, passed, trace, exitCode, env, page, pdfLinks, source, linkIdx,
          downloadedFiles, redirects, fetchLog,
          handler, req, hpc, matches, calls, responses, settled, served,
          query, answer, sources, loading, error, fetching, sent, replies, submits>>

----------------------------------------------------------------------------
(* Bounds of the model *)

MaxLen == 5     \* longest text of the small-text specification
MaxSize == 3    \* largest chunkSize of the small-text specification
MaxChunks == MaxLen + 3   \* the loop is cut off after this many chunks
MaxRuns == 2    \* ingestion runs in a behaviour
MaxFailures == 2   \* failing remote calls in a behaviour
MaxExtraLinks == 2 \* links of the longest listing page beyond MAX_DOCUMENTS
MaxRedirects == 1  \* redirects followed by one download

(* Program constants *)

CHUNK_SIZE == 1000
CHUNK_OVERLAP == 200
PERIOD_LOOKBACK == 100
SPACE_LOOKBACK == 20
NEWLINE_LOOKBACK == 50
MIN_CHUNK_LENGTH == 10
MIN_EXTRACTED_LENGTH == 100
MAX_DOCUMENTS == 50
MAX_DOCUMENTS_SECOND == 5
DELAY_AFTER_CHUNK == 500
DELAY_AFTER_ERROR == 1000
DELAY_AFTER_CHUNK_SECOND == 200

\* exitCode of a process that has not exited
NotExited == 0 - 1

NL == "\n"
Alphabet == {"a", ".", " ", NL}
Whitespace == {" ", NL}

----------------------------------------------------------------------------
(* JavaScript primitives *)

Min2(a, b) == IF a <= b THEN a ELSE b
Max2(a, b) == IF a >= b THEN a ELSE b
SetMax(S) == CHOOSE x \in S : \A y \in S : y <= x

\* String.prototype.lastIndexOf(ch, fromIndex) for a one-character ch:
\* the greatest index <= fromIndex holding ch, -1 when there is none.
lastIndexOf(s, ch, fromIndex) ==
    LET hi   == Min2(Max2(fromIndex, 0), Len(s) - 1)
        hits == {k \in 0..hi : s[k + 1] = ch}
    IN  IF hits = {} THEN -1 ELSE SetMax(hits)

\* String.prototype.slice(b, e): negative indices count from the end.
slice(s, b, e) ==
    LET n    == Len(s)
        from == IF b < 0 THEN Max2(n + b, 0) ELSE Min2(b, n)
        to   == IF e < 0 THEN Max2(n + e, 0) ELSE Min2(e, n)
    IN  IF from >= to THEN <<>> ELSE SubSeq(s, from + 1, to)

\* String.prototype.trim(): from the first to the last character that is no whitespace
trim(s) ==
    LET keep(k) == s[k] \notin Whitespace
    IN  IF \A k \in 1..Len(s) : ~keep(k)
        THEN <<>>
        ELSE SubSeq(s,
                    CHOOSE k \in 1..Len(s) : keep(k) /\ \A j \in 1..(k - 1) : ~keep(j),
                    CHOOSE k \in 1..Len(s) : keep(k) /\ \A j \in (k + 1)..Len(s) : ~keep(j))

----------------------------------------------------------------------------
(* Strings of the ingestion scripts *)

\* String.prototype.toLowerCase on the letters of the file names
lowerChar(c) ==
    IF c = "P" THEN "p" ELSE IF c = "D" THEN "d" ELSE IF c = "F" THEN "f" ELSE c
toLowerCase(s) == [k \in 1..Len(s) |-> lowerChar(s[k])]

\* String.prototype.endsWith
endsWith(s, suffix) ==
    Len(s) >= Len(suffix) /\ SubSeq(s, Len(s) - Len(suffix) + 1, Len(s)) = suffix

DOT_PDF == <<".", "p", "d", "f">>
CHUNK_INFIX == <<"_", "c", "h", "u", "n", "k", "_">>
Digit == <<"0", "1", "2", "3", "4", "5", "6", "7", "8", "9">>

\* Number to decimal string, as a template literal prints it
RECURSIVE decimal(_)
decimal(n) ==
    IF n < 10 THEN <<Digit[n + 1]>> ELSE decimal(n \div 10) \o <<Digit[(n % 10) + 1]>>

\* fileName.replace(/\.[^/.]+$/, ''): the last extension is removed
withoutExtension(name) ==
    LET dots == {k \in 1..Len(name) : name[k] = "."}
    IN  IF dots = {} \/ SetMax(dots) = Len(name)
           \/ \E k \in (SetMax(dots) + 1)..Len(name) : name[k] = "/"
        THEN name
        ELSE SubSeq(name, 1, SetMax(dots) - 1)

\* The pieces of the metadata text and of the error stub of extractTextFromPDF
META_DOCUMENT ==
    <<NL, "D", "o", "c", "u", "m", "e", "n", "t", ":", " ">>
META_SOURCE_PAGES ==
    <<NL, "S", "o", "u", "r", "c", "e", ":", " ", "J", "F", "K", " ", "A", "r", "c", "h", "k",
      "v", "e", NL, "N", "u", "m", "b", "e", "r", " ", "o", "f", " ", "P", "a", "g", "e", "s",
      ":", " ">>
META_INFO ==
    <<NL, "I", "n", "f", "o", ":", " ", "T", "h", "k", "s", " ", "a", "p", "p", "e", "a", "r",
      "s", " ", "t", "o", " ", "b", "e", " ", "a", " ", "s", "c", "a", "n", "n", "e", "d", " ",
      "d", "o", "c", "u", "m", "e", "n", "t", " ", "w", "k", "t", "h", " ", "l", "k", "m", "k",
      "t", "e", "d", " ", "m", "a", "c", "h", "k", "n", "e", "-", "r", "e", "a", "d", "a", "b",
      "l", "e", " ", "t", "e", "x", "t", ".", NL, "D", "o", "c", "u", "m", "e", "n", "t", " ",
      "I", "n", "f", "o", ":", " ">>
META_END ==
    <<NL, " ", " ", " ", " ", " ", " ">>
STUB_ERROR ==
    <<NL, "S", "o", "u", "r", "c", "e", ":", " ", "J", "F", "K", " ", "A", "r", "c", "h", "k",
      "v", "e", NL, "E", "r", "r", "o", "r", ":", " ", "C", "o", "u", "l", "d", " ", "n", "o",
      "t", " ", "e", "x", "t", "r", "a", "c", "t", " ", "t", "e", "x", "t", " ", "f", "r", "o",
      "m", " ", "t", "h", "k", "s", " ", "d", "o", "c", "u", "m", "e", "n", "t", ".", " ", NL,
      "N", "o", "t", "e", ":", " ", "T", "h", "k", "s", " ", "d", "o", "c", "u", "m", "e", "n",
      "t", " ", "m", "a", "y", " ", "b", "e", " ", "a", " ", "s", "c", "a", "n", "n", "e", "d",
      " ", "k", "m", "a", "g", "e", " ", "r", "e", "q", "u", "k", "r", "k", "n", "g", " ", "O",
      "C", "R", " ", "p", "r", "o", "c", "e", "s", "s", "k", "n", "g", ".", NL, " ", " ", " ",
      " ">>
EMPTY_JSON == <<"{", "}">>

----------------------------------------------------------------------------
(* The two chunkers *)

\* splitTextIntoChunks, the loop body up to the push: the window end.
endIndexOfSplitText(t, start, size) ==
    LET endIndex == start + size
        period   == lastIndexOf(t, ".", endIndex)
        space    == lastIndexOf(t, " ", endIndex)
    IN  IF endIndex < Len(t)
        THEN IF period > start /\ period > endIndex - PERIOD_LOOKBACK
             THEN period + 1
             ELSE IF space > start /\ space > endIndex - SPACE_LOOKBACK
                  THEN space + 1
                  ELSE endIndex
        ELSE Len(t)

\* A break test that gives up one character early.
breakOfSplitText_early(t, newStart, ov) == newStart >= Len(t) - ov - 1

\* A break test that is strict.
breakOfSplitText_strict(t, newStart, ov) == newStart > Len(t) - ov

\* splitTextIntoChunks: the break test after the start index has moved.
breakOfSplitText(t, newStart, ov) == newStart >= Len(t) - ov

\* splitIntoChunks, the loop body up to the push: the window end.
endIndexOfSplit(t, start, size) ==
    LET endIndex == Min2(start + size, Len(t))
        period   == lastIndexOf(t, ".", endIndex)
        newline  == lastIndexOf(t, NL, endIndex)
    IN  IF endIndex < Len(t)
        THEN IF period > start /\ period > endIndex - PERIOD_LOOKBACK
             THEN period + 1
             ELSE IF newline > start /\ newline > endIndex - NEWLINE_LOOKBACK
                  THEN newline + 1
                  ELSE endIndex
        ELSE endIndex

\* splitIntoChunks: the break test after the start index has moved.
breakOfSplit(t, newStart, ov) == newStart >= Len(t)

\* The chunk pushed for a window.
chunkOf(t, start, end) == trim(slice(t, start, end))

\* A start index that moves to the window end, forgetting the overlap.
nextStartIndex_noOverlap(end, ov) == end

\* Either chunker: the start index of the next window.
nextStartIndex(end, ov) == end - ov

\* Entry of either chunker: the early returns, or the loop is entered.
SplitCall ==
    /\ cpc = "call"
    /\ startIndex' = 0
    /\ windows' = <<>>
    /\ IF fn = "splitIntoChunks" /\ Len(text) = 0
       THEN chunks' = <<>> /\ cpc' = "returned"
       ELSE IF Len(text) <= chunkSize
            THEN chunks' = <<text>> /\ cpc' = "returned"
            ELSE chunks' = <<>> /\ cpc' = "loop"
    /\ UNCHANGED <<fn, text, chunkSize, overlap>>
    /\ UNCHANGED ingestVars
    /\ UNCHANGED webVars

\* One iteration of the while loop of either chunker.
SplitIterate ==
    /\ cpc = "loop"
    /\ Len(chunks) < MaxChunks
    /\ LET end == IF fn = "splitTextIntoChunks"
                  THEN endIndexOfSplitText(text, startIndex, chunkSize)
                  ELSE endIndexOfSplit(text, startIndex, chunkSize)
           newStart == nextStartIndex(end, overlap)
           brk == IF fn = "splitTextIntoChunks"
                  THEN breakOfSplitText(text, newStart, overlap)
                  ELSE breakOfSplit(text, newStart, overlap)
       IN  /\ chunks' = Append(chunks, chunkOf(text, startIndex, end))
           /\ windows' = Append(windows, <<startIndex, end>>)
           /\ startIndex' = newStart
           /\ cpc' = IF brk \/ ~(newStart < Len(text)) THEN "returned" ELSE "loop"
    /\ UNCHANGED <<fn, text, chunkSize, overlap>>
    /\ UNCHANGED ingestVars
    /\ UNCHANGED webVars

----------------------------------------------------------------------------
(* Specification of the chunkers on every small text and parameter pair *)

\* No request is being served by a query handler.
NoHandler ==
    /\ handler = "none"
    /\ req = [method |-> "none", body |-> [json |-> "none", query |-> <<>>]]
    /\ hpc = "none"
    /\ matches = <<>>
    /\ calls = <<>>
    /\ responses = <<>>
    /\ settled = <<>>
    /\ served = <<>>

\* The Home page is not mounted.
NoHome ==
    /\ query = <<>>
    /\ answer = ""
    /\ sources = <<>>
    /\ loading = FALSE
    /\ error = ""
    /\ fetching = FALSE
    /\ sent = <<>>
    /\ replies = <<>>
    /\ submits = 0

NoWeb == NoHandler /\ NoHome

SmallTexts == UNION {[1..n -> Alphabet] : n \in 0..MaxLen}

\* No ingestion run: the chunker is called on its own.
NoIngestion ==
    /\ processor = "none"
    /\ dir = <<>>
    /\ index = <<>>
    /\ run = 0
    /\ ipc = "none"
    /\ files = <<>>
    /\ fileIdx = 0
    /\ i = 0
    /\ processedChunks = 0
    /\ failedChunks = 0
    /\ totalProcessedChunks = 0
    /\ failures = 0
    /\ embeds = <<>>
    /\ upserts = <<>>
    /\ reports = <<>>
    /\ indexAfter = <<>>
    /\ passed = <<>>
    /\ trace = <<>>
    /\ env = {}
    /\ exitCode = NotExited
    /\ page = <<>>
    /\ pdfLinks = <<>>
    /\ source = "none"
    /\ linkIdx = 0
    /\ downloadedFiles = 0
    /\ redirects = 0
    /\ fetchLog = <<>>

InitChunk ==
    /\ NoIngestion
    /\ NoWeb
    /\ fn \in {"splitTextIntoChunks", "splitIntoChunks"}
    /\ text \in SmallTexts
    /\ chunkSize \in 1..MaxSize
    /\ overlap \in 0..(chunkSize - 1)
    /\ startIndex = 0
    /\ chunks = <<>>
    /\ windows = <<>>
    /\ cpc = "call"

NextChunk == SplitCall \/ SplitIterate

SpecChunk == InitChunk /\ [][NextChunk]_vars

----------------------------------------------------------------------------
(* Specification of the chunkers on texts of 2500 characters with the      *)
(* default parameters. A text is all "a" except for at most MaxMarks       *)
(* periods, spaces or line breaks, which lie at the places of MarkPlaces.  *)

MaxMarks == 2
LongLen == 2 * CHUNK_SIZE + CHUNK_SIZE \div 2
MarkPlaces == {901, 1000, 1603, 1801, 2404, 2499}
Marks == {".", " ", NL}

longText(m) == [k \in 1..LongLen |-> IF (k - 1) \in DOMAIN m THEN m[k - 1] ELSE "a"]

InitLong ==
    /\ NoIngestion
    /\ NoWeb
    /\ fn \in {"splitTextIntoChunks", "splitIntoChunks"}
    /\ \E P \in SUBSET MarkPlaces :
          /\ Cardinality(P) <= MaxMarks
          /\ \E m \in [P -> Marks] : text = longText(m)
    /\ chunkSize = CHUNK_SIZE
    /\ overlap = CHUNK_OVERLAP
    /\ startIndex = 0
    /\ chunks = <<>>
    /\ windows = <<>>
    /\ cpc = "call"

SpecLong == InitLong /\ [][NextChunk]_vars

----------------------------------------------------------------------------
(* The documents *)

repeat(n, c) == [k \in 1..n |-> c]

\* What a file of the directory holds: "corrupt" and "partial" make pdfParse throw,
\* the other kinds are the text pdfParse extracts.
PdfKinds == {"tiny", "padded", "short", "long", "tail", "corrupt", "partial"}

\* The files pdfParse throws on: no PDF, or a download that was not completed
unreadable(pdf) == pdf \in {"corrupt", "partial"}

pdfText(pdf) ==
    CASE pdf = "tiny"   -> repeat(3, "a")
      [] pdf = "padded" -> repeat(3, "a") \o repeat(10, " ")
      [] pdf = "short"  -> repeat(12, "a")
      [] pdf = "long"   -> repeat(CHUNK_SIZE + 100, "a")
      [] pdf = "tail"   -> repeat(795, "a") \o repeat(300, " ") \o <<"a">>

\* pdfData.numpages and pdfData.info of the documents of the model
pdfPages(pdf) == 1
pdfInfo(pdf) == EMPTY_JSON

\* The file names that may lie in the directory, in the order readdirSync lists them
FileNames ==
    << <<"a", ".", "P", "D", "F">>,
       <<"a", ".", "p", "d", "f">>,
       <<"b", ".", "p", "d", "f">>,
       <<"n", ".", "t", "x", "t">> >>

\* What each of these files may hold in a directory of the model
KindsOf ==
    << {"short", "padded", "corrupt"},
       {"short", "long", "tail", "tiny"},
       {"short", "padded", "tiny"},
       {"short"} >>

present(f) == f.pdf # "absent"

\* The directory in which file k holds pick[k]
directory(pick) ==
    SelectSeq([k \in 1..Len(FileNames) |-> [name |-> FileNames[k], pdf |-> pick[k]]],
              present)

Directories ==
    {directory(pick) :
        pick \in {q \in [1..Len(FileNames) -> PdfKinds \cup {"absent"}] :
                     \A k \in 1..Len(FileNames) : q[k] \in KindsOf[k] \cup {"absent"}}}

\* The directories of the specification of repeated runs
SmallDirectories ==
    {directory(pick) :
        pick \in {q \in [1..Len(FileNames) -> PdfKinds \cup {"absent"}] :
                     /\ q[1] \in {"short", "absent"}
                     /\ q[2] \in {"short", "tail", "absent"}
                     /\ q[3] \in {"padded", "absent"}
                     /\ q[4] = "absent"}}

----------------------------------------------------------------------------
(* The ingestion loops: processPdfFile with ingestDocuments, and processDocuments *)

Runs == 1..MaxRuns

\* .filter(file => file.toLowerCase().endsWith('.pdf'))
isPdfFile(f) == endsWith(toLowerCase(f.name), DOT_PDF)

\* An id that counts on from the number of records in the index.
recordId_countingOn(fileName, n) ==
    withoutExtension(fileName) \o CHUNK_INFIX \o decimal(n + Cardinality(DOMAIN index))

\* `${fileName.replace(/\.[^/.]+$/, '')}_chunk_${i}`
recordId(fileName, n) == withoutExtension(fileName) \o CHUNK_INFIX \o decimal(n)

\* An extractTextFromPDF that returns the empty string for a document it cannot read.
extractTextFromPDF_noStub(f) ==
    IF unreadable(f.pdf) THEN <<>> ELSE pdfText(f.pdf)

\* extractTextFromPDF of the second script
extractTextFromPDF(f) ==
    IF unreadable(f.pdf)
    THEN META_DOCUMENT \o f.name \o STUB_ERROR
    ELSE LET extractedText == pdfText(f.pdf)
             metadata == META_DOCUMENT \o f.name \o META_SOURCE_PAGES
                           \o decimal(pdfPages(f.pdf)) \o META_INFO \o pdfInfo(f.pdf)
                           \o META_END
         IN  IF Len(trim(extractedText)) < MIN_EXTRACTED_LENGTH
             THEN metadata \o <<NL, NL>> \o extractedText
             ELSE extractedText

\* The test of the chunk loop that skips a chunk:
\* processPdfFile: !chunk || chunk.length < 10; processDocuments: chunk.trim().length < 10
tooShortForLoop(proc, chunk) ==
    IF proc = "processPdfFile"
    THEN Len(chunk) = 0 \/ Len(chunk) < MIN_CHUNK_LENGTH
    ELSE Len(trim(chunk)) < MIN_CHUNK_LENGTH

\* getEmbedding: !text || text.trim().length < 10 throws before any request
\* (createEmbedding of the second script has no such test)
tooShortForEmbedding(proc, chunk) ==
    proc = "processPdfFile" /\ (Len(chunk) = 0 \/ Len(trim(chunk)) < MIN_CHUNK_LENGTH)

\* What an embedding request can come back with: the embedding, an exception
\* (transport error, error status, unexpected format), or, in getEmbedding, a
\* value that is no array.
embedOutcomes(proc) ==
    IF proc = "processPdfFile" THEN {"ok", "throw", "invalid"} ELSE {"ok", "throw"}

\* A call whose result is not awaited: its record stays pending.
setResult_notAwaited(log, r, file, chunk, result) == log

\* The awaited call of a chunk has completed with this result.
setResult(log, r, file, chunk, result) ==
    [log EXCEPT ![r] = {IF e.file = file /\ e.chunk = chunk /\ e.result = "pending"
                        THEN [e EXCEPT !.result = result] ELSE e : e \in @}]

\* A loop that loses count of the chunks that fail.
countFailed_lost(proc, n) == n

\* The counter a failed chunk is added to (processDocuments keeps none).
countFailed(proc, n) == IF proc = "processPdfFile" THEN n + 1 ELSE n

\* The credentials the scripts read from process.env; "EMBEDDING_API_KEY" is
\* OPENROUTER_API_KEY in scripts/ingest-documents.js and OPENAI_API_KEY in the
\* second script.
Credentials == {"EMBEDDING_API_KEY", "PINECONE_API_KEY", "PINECONE_INDEX_NAME"}

\* The delay a chunk loop waits after a chunk, 0 for none. processPdfFile: 500 ms
\* after the upsert, 1000 ms in its catch, none on the continue after an embedding
\* that is no array; processDocuments: 200 ms after the upsert, none in its catch.
delayAfter(proc, outcome) ==
    IF proc = "processPdfFile"
    THEN CASE outcome = "ok" -> DELAY_AFTER_CHUNK
           [] outcome = "throw" -> DELAY_AFTER_ERROR
           [] outcome = "invalid" -> 0
    ELSE IF outcome = "ok" THEN DELAY_AFTER_CHUNK_SECOND ELSE 0

called(tr, r, kind, file, chunk) ==
    [tr EXCEPT ![r] = Append(@, [kind |-> kind, file |-> file, chunk |-> chunk, ms |-> 0])]

waited(tr, r, file, chunk, ms) ==
    IF ms = 0 THEN tr
    ELSE [tr EXCEPT ![r] = Append(@, [kind |-> "delay", file |-> file, chunk |-> chunk,
                                      ms |-> ms])]

\* readdirSync + filter of ingestDocuments / getPDFFiles, and the early return on no
\* file; processDocuments then calls pinecone.index(indexName), outside every try of
\* its own, and what the library does with an undefined name is left open.
ListFiles ==
    /\ ipc = "list"
    /\ files' = SelectSeq(dir, isPdfFile)
    /\ totalProcessedChunks' = 0
    /\ fileIdx' = 1
    /\ IF files' = <<>>
       THEN /\ ipc' = "done"
            /\ exitCode' = 0
            /\ indexAfter' = [indexAfter EXCEPT ![run] = DOMAIN index]
       ELSE \E libraryThrows \in BOOLEAN :
              /\ libraryThrows => /\ processor = "processDocuments"
                                  /\ "PINECONE_INDEX_NAME" \notin env
              /\ IF libraryThrows
                 THEN /\ ipc' = "exited"
                      /\ exitCode' = 1
                 ELSE /\ ipc' = "open"
                      /\ UNCHANGED exitCode
              /\ UNCHANGED indexAfter
    /\ UNCHANGED <<processor, dir, index, run, i, processedChunks, failedChunks,
                   failures, embeds, upserts, reports>>
    /\ UNCHANGED chunkerVars
    /\ UNCHANGED passed
    /\ UNCHANGED trace
    /\ UNCHANGED fetchVars
    /\ UNCHANGED webVars

\* The next file: processPdfFile reads and parses it and calls splitTextIntoChunks,
\* returning 0 when that throws; processDocuments extracts its text and calls
\* splitIntoChunks, passing over a text of fewer than 10 characters.
OpenFile ==
    /\ ipc = "open"
    /\ fileIdx <= Len(files)
    /\ LET f == files[fileIdx]
           passedOver == IF processor = "processPdfFile"
                         THEN unreadable(f.pdf)
                         ELSE Len(extractTextFromPDF(f)) = 0
                                \/ Len(trim(extractTextFromPDF(f))) < MIN_CHUNK_LENGTH
       IN  IF passedOver
           THEN /\ fileIdx' = fileIdx + 1
                /\ reports' = IF processor = "processPdfFile"
                              THEN [reports EXCEPT ![run] =
                                      Append(@, [file |-> fileIdx, processed |-> 0,
                                                 failed |-> 0, chunks |-> 0,
                                                 error |-> TRUE])]
                              ELSE reports
                /\ UNCHANGED <<ipc, fn, text, chunkSize, overlap, cpc>>
           ELSE /\ ipc' = "chunking"
                /\ cpc' = "call"
                /\ fn' = IF processor = "processPdfFile"
                         THEN "splitTextIntoChunks" ELSE "splitIntoChunks"
                /\ text' = IF processor = "processPdfFile"
                           THEN pdfText(f.pdf) ELSE extractTextFromPDF(f)
                /\ chunkSize' = CHUNK_SIZE
                /\ overlap' = CHUNK_OVERLAP
                /\ UNCHANGED <<fileIdx, reports>>
    /\ UNCHANGED <<startIndex, chunks, windows>>
    /\ UNCHANGED <<processor, dir, index, run, files, i, processedChunks, failedChunks,
                   totalProcessedChunks, failures, embeds, upserts, indexAfter>>
    /\ UNCHANGED passed
    /\ UNCHANGED <<trace, exitCode>>
    /\ UNCHANGED fetchVars
    /\ UNCHANGED webVars

\* The chunker has returned: the counters of the file and the chunk loop start.
StartChunks ==
    /\ ipc = "chunking"
    /\ cpc = "returned"
    /\ ipc' = "loop"
    /\ cpc' = "idle"
    /\ text' = <<>>
    /\ windows' = <<>>
    /\ startIndex' = 0
    /\ i' = 0
    /\ processedChunks' = 0
    /\ failedChunks' = 0
    /\ UNCHANGED <<fn, chunkSize, overlap, chunks>>
    /\ UNCHANGED <<processor, dir, index, run, files, fileIdx, totalProcessedChunks,
                   failures, embeds, upserts, reports, indexAfter>>
    /\ UNCHANGED passed
    /\ UNCHANGED <<trace, exitCode>>
    /\ UNCHANGED fetchVars
    /\ UNCHANGED webVars

\* One chunk up to its embedding request: it is skipped, or getEmbedding throws
\* at once, or the request is sent.
ChunkStep ==
    /\ ipc = "loop"
    /\ i < Len(chunks)
    /\ LET chunk == chunks[i + 1]
       IN  IF tooShortForLoop(processor, chunk)
           THEN /\ i' = i + 1
                /\ passed' = [passed EXCEPT ![run] =
                                 @ \cup {[file |-> fileIdx, chunk |-> i, how |-> "skipped"]}]
                /\ UNCHANGED <<ipc, failedChunks, embeds, trace>>
           ELSE IF tooShortForEmbedding(processor, chunk)
                THEN /\ i' = i + 1
                     /\ failedChunks' = countFailed(processor, failedChunks)
                     /\ passed' = [passed EXCEPT ![run] =
                                      @ \cup {[file |-> fileIdx, chunk |-> i,
                                               how |-> "rejected"]}]
                     /\ trace' = waited(trace, run, fileIdx, i,
                                        delayAfter(processor, "throw"))
                     /\ UNCHANGED <<ipc, embeds>>
                ELSE /\ ipc' = "embedding"
                     /\ embeds' = [embeds EXCEPT ![run] =
                                     @ \cup {[file |-> fileIdx, chunk |-> i,
                                              result |-> "pending"]}]
                     /\ trace' = called(trace, run, "embed", fileIdx, i)
                     /\ UNCHANGED <<i, failedChunks, passed>>
    /\ UNCHANGED <<processor, dir, index, run, files, fileIdx, processedChunks,
                   totalProcessedChunks, failures, upserts, reports, indexAfter>>
    /\ UNCHANGED chunkerVars
    /\ UNCHANGED exitCode
    /\ UNCHANGED fetchVars
    /\ UNCHANGED webVars

\* The embedding request comes back: on success the upsert is sent.
EmbedResponse ==
    /\ ipc = "embedding"
    /\ \E outcome \in embedOutcomes(processor) :
          /\ outcome # "ok" => failures < MaxFailures
          /\ embeds' = setResult(embeds, run, fileIdx, i, outcome)
          /\ IF outcome = "ok"
             THEN /\ ipc' = "upserting"
                  /\ upserts' = [upserts EXCEPT ![run] =
                                   @ \cup {[id |-> recordId(files[fileIdx].name, i),
                                            file |-> fileIdx, chunk |-> i,
                                            result |-> "pending"]}]
                  /\ trace' = called(trace, run, "upsert", fileIdx, i)
                  /\ UNCHANGED <<i, failedChunks, failures>>
             ELSE /\ ipc' = "loop"
                  /\ i' = i + 1
                  /\ failedChunks' = countFailed(processor, failedChunks)
                  /\ failures' = failures + 1
                  /\ trace' = waited(trace, run, fileIdx, i, delayAfter(processor, outcome))
                  /\ UNCHANGED upserts
    /\ UNCHANGED <<processor, dir, index, run, files, fileIdx, processedChunks,
                   totalProcessedChunks, reports, indexAfter>>
    /\ UNCHANGED chunkerVars
    /\ UNCHANGED passed
    /\ UNCHANGED exitCode
    /\ UNCHANGED fetchVars
    /\ UNCHANGED webVars

\* The upsert comes back: the record is in the index and the chunk is counted,
\* or the upsert threw.
UpsertResponse ==
    /\ ipc = "upserting"
    /\ \E outcome \in {"ok", "throw"} :
          /\ outcome # "ok" => failures < MaxFailures
          /\ upserts' = setResult(upserts, run, fileIdx, i, outcome)
          /\ trace' = waited(trace, run, fileIdx, i, delayAfter(processor, outcome))
          /\ IF outcome = "ok"
             THEN /\ index' = [id \in DOMAIN index \cup {recordId(files[fileIdx].name, i)} |->
                                 IF id = recordId(files[fileIdx].name, i)
                                 THEN [source |-> files[fileIdx].name, chunk |-> i]
                                 ELSE index[id]]
                  /\ processedChunks' = processedChunks + 1
                  /\ UNCHANGED <<failedChunks, failures>>
             ELSE /\ failedChunks' = countFailed(processor, failedChunks)
                  /\ failures' = failures + 1
                  /\ UNCHANGED <<index, processedChunks>>
    /\ ipc' = "loop"
    /\ i' = i + 1
    /\ UNCHANGED <<processor, dir, run, files, fileIdx, totalProcessedChunks, embeds,
                   reports, indexAfter>>
    /\ UNCHANGED chunkerVars
    /\ UNCHANGED passed
    /\ UNCHANGED exitCode
    /\ UNCHANGED fetchVars
    /\ UNCHANGED webVars

\* The chunk loop is over: the summary of the file is logged and added to the total.
FinishFile ==
    /\ ipc = "loop"
    /\ i >= Len(chunks)
    /\ reports' = [reports EXCEPT ![run] =
                     Append(@, [file |-> fileIdx, processed |-> processedChunks,
                                failed |-> failedChunks, chunks |-> Len(chunks),
                                error |-> FALSE])]
    /\ totalProcessedChunks' = totalProcessedChunks + processedChunks
    /\ fileIdx' = fileIdx + 1
    /\ ipc' = "open"
    /\ chunks' = <<>>
    /\ UNCHANGED <<fn, text, chunkSize, overlap, startIndex, windows, cpc>>
    /\ UNCHANGED <<processor, dir, index, run, files, i, processedChunks, failedChunks,
                   failures, embeds, upserts, indexAfter>>
    /\ UNCHANGED passed
    /\ UNCHANGED <<trace, exitCode>>
    /\ UNCHANGED fetchVars
    /\ UNCHANGED webVars

\* Every file has been processed: the run logs its total and ends.
EndRun ==
    /\ ipc = "open"
    /\ fileIdx > Len(files)
    /\ ipc' = "done"
    /\ exitCode' = 0
    /\ indexAfter' = [indexAfter EXCEPT ![run] = DOMAIN index]
    /\ UNCHANGED <<processor, dir, index, run, files, fileIdx, i, processedChunks,
                   failedChunks, totalProcessedChunks, failures, embeds, upserts, reports>>
    /\ UNCHANGED chunkerVars
    /\ UNCHANGED passed
    /\ UNCHANGED trace
    /\ UNCHANGED fetchVars
    /\ UNCHANGED webVars

\* The script is started again on the same directory and the same index.
RunAgain ==
    /\ ipc = "done"
    /\ run < MaxRuns
    /\ run' = run + 1
    /\ ipc' = "list"
    /\ exitCode' = NotExited
    /\ files' = <<>>
    /\ fileIdx' = 0
    /\ i' = 0
    /\ processedChunks' = 0
    /\ failedChunks' = 0
    /\ totalProcessedChunks' = 0
    /\ UNCHANGED <<processor, dir, index, failures, embeds, upserts, reports, indexAfter>>
    /\ UNCHANGED chunkerVars
    /\ UNCHANGED passed
    /\ UNCHANGED trace
    /\ UNCHANGED fetchVars
    /\ UNCHANGED webVars

\* The state of a first run that has fetched no listing and no document yet
NothingFetched ==
    /\ exitCode = NotExited
    /\ page = <<>>
    /\ pdfLinks = <<>>
    /\ source = "none"
    /\ linkIdx = 0
    /\ downloadedFiles = 0
    /\ redirects = 0
    /\ fetchLog = [r \in Runs |-> <<>>]

InitIngest ==
    /\ NoWeb
    /\ processor \in {"processPdfFile", "processDocuments"}
    /\ dir \in Directories
    /\ env = Credentials
    /\ NothingFetched
    /\ trace = [r \in Runs |-> <<>>]
    /\ index = <<>>
    /\ run = 1
    /\ ipc = "list"
    /\ files = <<>>
    /\ fileIdx = 0
    /\ i = 0
    /\ processedChunks = 0
    /\ failedChunks = 0
    /\ totalProcessedChunks = 0
    /\ failures = 0
    /\ embeds = [r \in Runs |-> {}]
    /\ upserts = [r \in Runs |-> {}]
    /\ reports = [r \in Runs |-> <<>>]
    /\ indexAfter = [r \in Runs |-> {}]
    /\ passed = [r \in Runs |-> {}]
    /\ fn = "none"
    /\ text = <<>>
    /\ chunkSize = CHUNK_SIZE
    /\ overlap = CHUNK_OVERLAP
    /\ startIndex = 0
    /\ chunks = <<>>
    /\ windows = <<>>
    /\ cpc = "idle"

\* One ingestion run
NextIngest ==
    \/ ListFiles
    \/ OpenFile
    \/ SplitCall
    \/ SplitIterate
    \/ StartChunks
    \/ ChunkStep
    \/ EmbedResponse
    \/ UpsertResponse
    \/ FinishFile
    \/ EndRun

SpecIngest == InitIngest /\ [][NextIngest]_vars

\* Ingestion runs one after the other on the same directory and index
InitReingest ==
    /\ InitIngest
    /\ dir \in SmallDirectories

NextReingest ==
    \/ ListFiles
    \/ OpenFile
    \/ SplitCall
    \/ SplitIterate
    \/ StartChunks
    \/ ChunkStep
    \/ EmbedResponse
    \/ UpsertResponse
    \/ FinishFile
    \/ EndRun
    \/ RunAgain

SpecReingest == InitReingest /\ [][NextReingest]_vars

----------------------------------------------------------------------------
(* Start of the scripts, listing page and downloads *)

LinkNames ==
    << <<"d", "1", ".", "p", "d", "f">>,
       <<"d", "2", ".", "p", "d", "f">> >>

\* backupDocs of downloadBackupDocuments
backupDocs ==
    << <<"W", "a", "r", "r", "e", "n", "_", "C", "o", "m", "m", "i", "s", "s", "i", "o", "n", "_", "R", "e", "p", "o", "r", "t", ".", "p", "d", "f">>,
       <<"H", "S", "C", "A", "_", "R", "e", "p", "o", "r", "t", ".", "p", "d", "f">> >>

\* The names in the order readdirSync lists the directory
AllNames == FileNames \o LinkNames \o backupDocs

rank(name) == CHOOSE k \in 1..Len(AllNames) : AllNames[k] = name

\* fs.existsSync(outputPath)
existsSync(d, name) == \E k \in 1..Len(d) : d[k].name = name

\* fs.unlink(outputPath, ...)
unlink(d, name) ==
    LET other(f) == f.name # name
    IN  SelectSeq(d, other)

\* The directory after the file of this name has been created or rewritten
writeFile(d, name, pdf) ==
    LET before(f) == rank(f.name) < rank(name)
        after(f) == rank(f.name) > rank(name)
    IN  SelectSeq(d, before) \o <<[name |-> name, pdf |-> pdf]>> \o SelectSeq(d, after)

\* MAX_DOCUMENTS of the script that runs this loop
maxDocuments(proc) ==
    IF proc = "processPdfFile" THEN MAX_DOCUMENTS ELSE MAX_DOCUMENTS_SECOND

\* A listing page of n matching links
pageOf(n) == [k \in 1..n |-> LinkNames[((k - 1) % Len(LinkNames)) + 1]]

Pages(proc) == {pageOf(n) : n \in {0, 1, maxDocuments(proc) + MaxExtraLinks}}

\* The loop of extractPdfLinks: push the match, break when MAX_DOCUMENTS are held
RECURSIVE pushLinks(_, _)
pushLinks(found, links) ==
    IF found = <<>> THEN links
    ELSE LET pushed == Append(links, Head(found))
         IN  IF Len(pushed) >= MAX_DOCUMENTS THEN pushed
             ELSE pushLinks(Tail(found), pushed)

\* A listing that takes every link of the page.
takeLinks_all(proc, links) == links

\* The links taken from the page: extractPdfLinks, or pdfLinks.slice(0, MAX_DOCUMENTS)
\* of downloadJFKDocuments
takeLinks(proc, links) ==
    IF proc = "processPdfFile" THEN pushLinks(links, <<>>)
    ELSE slice(links, 0, MAX_DOCUMENTS_SECOND)

\* A download that has no backup list.
downloadList_noBackup(proc, links) == links

\* The documents the download loop runs over: the links taken from the page, or
\* backupDocs when downloadJfkArchiveDocuments got no link; downloadJFKDocuments
\* has no backup list and returns [].
downloadList(proc, links) ==
    IF links = <<>> /\ proc = "processPdfFile" THEN backupDocs ELSE links

logged(log, r, kind, name) ==
    [log EXCEPT ![r] = Append(@, [kind |-> kind, name |-> name])]

\* What the download loop does when the file it asks for is there already.
skipsExisting_never(d, name) == FALSE

\* if (fs.existsSync(outputPath)) { ...; continue; }
skipsExisting(d, name) == existsSync(d, name)

\* Module-level code: the Pinecone client is built (what the library does without
\* a key or an index name is left open), and the second script exits with status 1
\* without OPENAI_API_KEY.
LoadModule ==
    /\ ipc = "start"
    /\ \E libraryThrows \in BOOLEAN :
          /\ libraryThrows =>
                \/ "PINECONE_API_KEY" \notin env
                \/ processor = "processPdfFile" /\ "PINECONE_INDEX_NAME" \notin env
          /\ IF libraryThrows
                \/ (processor = "processDocuments" /\ "EMBEDDING_API_KEY" \notin env)
             THEN /\ ipc' = "exited"
                  /\ exitCode' = 1
             ELSE /\ ipc' = "validate"
                  /\ UNCHANGED exitCode
    /\ UNCHANGED <<processor, dir, index, run, files, fileIdx, i, processedChunks,
                   failedChunks, totalProcessedChunks, failures, embeds, upserts, reports,
                   indexAfter, passed, trace>>
    /\ UNCHANGED fetchVars
    /\ UNCHANGED chunkerVars
    /\ UNCHANGED webVars

\* validateEnvironment: in ingestDocuments of scripts/ingest-documents.js it throws
\* into the catch of ingestDocuments, which logs and returns; in the second script
\* it checks nothing. Then the listing page is requested.
Validate ==
    /\ ipc = "validate"
    /\ IF processor = "processPdfFile" /\ ~(Credentials \subseteq env)
       THEN /\ ipc' = "exited"
            /\ exitCode' = 0
       ELSE /\ ipc' = "listing"
            /\ UNCHANGED exitCode
    /\ UNCHANGED <<processor, dir, index, run, files, fileIdx, i, processedChunks,
                   failedChunks, totalProcessedChunks, failures, embeds, upserts, reports,
                   indexAfter, passed, trace>>
    /\ UNCHANGED fetchVars
    /\ UNCHANGED chunkerVars
    /\ UNCHANGED webVars

\* The request for the listing page comes back. downloadJfkArchiveDocuments turns
\* to the backup list when extractPdfLinks returns no link; downloadJFKDocuments
\* returns [] and the run goes on to processDocuments.
ListingResponse ==
    /\ ipc = "listing"
    /\ \E fetched \in BOOLEAN :
          /\ ~fetched => failures < MaxFailures
          /\ failures' = IF fetched THEN failures ELSE failures + 1
          /\ LET links == IF fetched THEN takeLinks(processor, page) ELSE <<>>
                 kind == IF fetched THEN "listed" ELSE "listing failed"
             IN  /\ fetchLog' = logged(fetchLog, run, kind, <<>>)
                 /\ pdfLinks' = downloadList(processor, links)
                 /\ source' = IF links # <<>> THEN "primary"
                              ELSE IF pdfLinks' # <<>> THEN "backup" ELSE "none"
                 /\ ipc' = IF pdfLinks' # <<>> THEN "links" ELSE "list"
    /\ linkIdx' = 1
    /\ downloadedFiles' = 0
    /\ UNCHANGED <<processor, dir, index, run, files, fileIdx, i, processedChunks,
                   failedChunks, totalProcessedChunks, embeds, upserts, reports,
                   indexAfter, passed, trace, exitCode>>
    /\ UNCHANGED <<env, page, redirects>>
    /\ UNCHANGED chunkerVars
    /\ UNCHANGED webVars

\* The next document of the download loop: it is skipped and counted when its
\* file exists, else downloadFile is called. downloadFile of
\* scripts/ingest-documents.js creates the write stream before the request.
DownloadStep ==
    /\ ipc = "links"
    /\ linkIdx <= Len(pdfLinks)
    /\ LET name == pdfLinks[linkIdx]
       IN  IF skipsExisting(dir, name)
           THEN /\ fetchLog' = logged(fetchLog, run, "skip", name)
                /\ downloadedFiles' = downloadedFiles + 1
                /\ linkIdx' = linkIdx + 1
                /\ UNCHANGED <<ipc, dir, redirects>>
           ELSE /\ fetchLog' = logged(fetchLog, run, "request", name)
                /\ ipc' = "downloading"
                /\ redirects' = 0
                /\ dir' = IF processor = "processPdfFile"
                          THEN writeFile(dir, name, "partial") ELSE dir
                /\ UNCHANGED <<downloadedFiles, linkIdx>>
    /\ UNCHANGED <<processor, index, run, files, fileIdx, i, processedChunks,
                   failedChunks, totalProcessedChunks, failures, embeds, upserts, reports,
                   indexAfter, passed, trace, exitCode>>
    /\ UNCHANGED <<env, page, pdfLinks, source>>
    /\ UNCHANGED chunkerVars
    /\ UNCHANGED webVars

\* The end of a download that failed: the catch of the loop of
\* scripts/ingest-documents.js, or the false returned by downloadFile of the
\* second script; the loop over the listing then waits 500 ms.
downloadFailed(name) ==
    /\ fetchLog' = logged(fetchLog, run, "failed", name)
    /\ failures' = failures + 1
    /\ linkIdx' = linkIdx + 1
    /\ ipc' = "links"
    /\ UNCHANGED downloadedFiles

\* The response to the download request. scripts/ingest-documents.js: a redirect is
\* followed by a call of downloadFile on the same path, a status other than 200 and
\* a request error unlink the file and reject. Second script: fetch throws or the
\* response is not ok, before any file is created; else the write stream is created.
DownloadResponse ==
    /\ ipc = "downloading"
    /\ LET name == pdfLinks[linkIdx]
       IN  \E outcome \in {"ok", "status", "error", "redirect"} :
             CASE outcome = "redirect" ->
                    /\ processor = "processPdfFile"
                    /\ redirects < MaxRedirects
                    /\ redirects' = redirects + 1
                    /\ fetchLog' = logged(fetchLog, run, "redirect", name)
                    /\ dir' = writeFile(dir, name, "partial")
                    /\ UNCHANGED <<ipc, failures, linkIdx, downloadedFiles>>
               [] outcome = "ok" ->
                    /\ ipc' = "streaming"
                    /\ dir' = writeFile(dir, name, "partial")
                    /\ UNCHANGED <<fetchLog, failures, linkIdx, downloadedFiles, redirects>>
               [] outcome \in {"status", "error"} ->
                    /\ failures < MaxFailures
                    /\ downloadFailed(name)
                    /\ dir' = IF processor = "processPdfFile" THEN unlink(dir, name)
                              ELSE dir
                    /\ UNCHANGED redirects
    /\ UNCHANGED <<processor, index, run, files, fileIdx, i, processedChunks,
                   failedChunks, totalProcessedChunks, embeds, upserts, reports,
                   indexAfter, passed, trace, exitCode>>
    /\ UNCHANGED <<env, page, pdfLinks, source>>
    /\ UNCHANGED chunkerVars
    /\ UNCHANGED webVars

\* The body has been piped to the file, or the piping failed.
\* scripts/ingest-documents.js: 'finish' resolves, 'error' of the file unlinks and
\* rejects. Second script: 'finish' resolves, 'error' of the body rejects into the
\* catch, which returns false.
StreamEnd ==
    /\ ipc = "streaming"
    /\ LET name == pdfLinks[linkIdx]
       IN  \E outcome \in {"finish", "error"} :
             IF outcome = "finish"
             THEN /\ dir' = writeFile(dir, name, "short")
                  /\ fetchLog' = logged(fetchLog, run, "saved", name)
                  /\ downloadedFiles' = downloadedFiles + 1
                  /\ linkIdx' = linkIdx + 1
                  /\ ipc' = "links"
                  /\ UNCHANGED failures
             ELSE /\ failures < MaxFailures
                  /\ downloadFailed(name)
                  /\ dir' = IF processor = "processPdfFile" THEN unlink(dir, name)
                            ELSE dir
    /\ UNCHANGED <<processor, index, run, files, fileIdx, i, processedChunks,
                   failedChunks, totalProcessedChunks, embeds, upserts, reports,
                   indexAfter, passed, trace, exitCode>>
    /\ UNCHANGED <<env, page, pdfLinks, source, redirects>>
    /\ UNCHANGED chunkerVars
    /\ UNCHANGED webVars

\* The download loop is over. ingestDocuments of scripts/ingest-documents.js
\* returns when no document was counted as downloaded; the second script goes on
\* to processDocuments whatever was downloaded.
DownloadsDone ==
    /\ ipc = "links"
    /\ linkIdx > Len(pdfLinks)
    /\ IF processor = "processPdfFile" /\ ~(downloadedFiles > 0)
       THEN /\ ipc' = "exited"
            /\ exitCode' = 0
       ELSE /\ ipc' = "list"
            /\ UNCHANGED exitCode
    /\ UNCHANGED <<processor, dir, index, run, files, fileIdx, i, processedChunks,
                   failedChunks, totalProcessedChunks, failures, embeds, upserts, reports,
                   indexAfter, passed, trace>>
    /\ UNCHANGED fetchVars
    /\ UNCHANGED chunkerVars
    /\ UNCHANGED webVars

\* The directories a run may find: empty, or a file placed by hand, a document of
\* the listing or both, or a document of the backup list (a text of more than one
\* chunk)
RunDirectories ==
    {SelectSeq(<<[name |-> FileNames[3], pdf |-> q[1]],
                 [name |-> LinkNames[1], pdf |-> q[2]],
                 [name |-> backupDocs[1], pdf |-> q[3]]>>, present) :
        q \in {f \in [1..3 -> {"short", "long", "absent"}] :
                  /\ f[1] # "long" /\ f[2] # "long" /\ f[3] # "short"
                  /\ f[3] = "long" => (f[1] = "absent" /\ f[2] = "absent")}}

\* The environments of a run: every credential set, or all but one
Environments == {Credentials} \cup {Credentials \ {c} : c \in Credentials}

\* A script is started for the first time
FirstStart ==
    /\ NoWeb
    /\ processor \in {"processPdfFile", "processDocuments"}
    /\ exitCode = NotExited
    /\ pdfLinks = <<>>
    /\ source = "none"
    /\ linkIdx = 0
    /\ downloadedFiles = 0
    /\ redirects = 0
    /\ fetchLog = [r \in Runs |-> <<>>]
    /\ trace = [r \in Runs |-> <<>>]
    /\ index = <<>>
    /\ run = 1
    /\ ipc = "start"
    /\ files = <<>>
    /\ fileIdx = 0
    /\ i = 0
    /\ processedChunks = 0
    /\ failedChunks = 0
    /\ totalProcessedChunks = 0
    /\ embeds = [r \in Runs |-> {}]
    /\ upserts = [r \in Runs |-> {}]
    /\ reports = [r \in Runs |-> <<>>]
    /\ indexAfter = [r \in Runs |-> {}]
    /\ passed = [r \in Runs |-> {}]
    /\ fn = "none"
    /\ text = <<>>
    /\ chunkSize = CHUNK_SIZE
    /\ overlap = CHUNK_OVERLAP
    /\ startIndex = 0
    /\ chunks = <<>>
    /\ windows = <<>>
    /\ cpc = "idle"

\* The runs of the model: any directory with every credential set, an empty
\* directory with one credential missing
InitRun ==
    /\ FirstStart
    /\ failures = 0
    /\ dir \in RunDirectories
    /\ env \in Environments
    /\ env # Credentials => dir = <<>>
    /\ page \in Pages(processor)

\* One run of a script from its start to its exit
NextRun ==
    \/ LoadModule
    \/ Validate
    \/ ListingResponse
    \/ DownloadStep
    \/ DownloadResponse
    \/ StreamEnd
    \/ DownloadsDone
    \/ ListFiles
    \/ OpenFile
    \/ SplitCall
    \/ SplitIterate
    \/ StartChunks
    \/ ChunkStep
    \/ EmbedResponse
    \/ UpsertResponse
    \/ FinishFile
    \/ EndRun

SpecRun == InitRun /\ [][NextRun]_vars

----------------------------------------------------------------------------
(* A run stopped by the termination of its process, and the script run again *)

\* A run of the behaviour was stopped by the termination of its process
wasKilled(r) == \E k \in 1..Len(fetchLog[r]) : fetchLog[r][k].kind = "killed"

\* The process is terminated, once in a behaviour. Nothing is cleaned up: a file
\* being written stays as it is, and an upsert in flight has reached the index or
\* not.
Kill ==
    /\ ipc \notin {"none", "done", "exited", "killed"}
    /\ \A r \in Runs : ~wasKilled(r)
    /\ fetchLog' = logged(fetchLog, run, "killed", <<>>)
    /\ ipc' = "killed"
    /\ cpc' = "idle"
    /\ IF ipc = "upserting"
       THEN \E applied \in BOOLEAN :
              index' = IF applied
                       THEN [id \in DOMAIN index \cup {recordId(files[fileIdx].name, i)} |->
                               IF id = recordId(files[fileIdx].name, i)
                               THEN [source |-> files[fileIdx].name, chunk |-> i]
                               ELSE index[id]]
                       ELSE index
       ELSE UNCHANGED index
    /\ UNCHANGED <<fn, text, chunkSize, overlap, startIndex, chunks, windows>>
    /\ UNCHANGED <<processor, dir, run, files, fileIdx, i, processedChunks,
                   failedChunks, totalProcessedChunks, failures, embeds, upserts, reports,
                   indexAfter, passed, trace, exitCode>>
    /\ UNCHANGED <<env, page, pdfLinks, source, linkIdx, downloadedFiles, redirects>>
    /\ UNCHANGED webVars

\* The script is started again, on the directory and the index as they are.
Restart ==
    /\ ipc \in {"done", "exited", "killed"}
    /\ run < MaxRuns
    /\ run' = run + 1
    /\ ipc' = "start"
    /\ exitCode' = NotExited
    /\ files' = <<>>
    /\ fileIdx' = 0
    /\ i' = 0
    /\ processedChunks' = 0
    /\ failedChunks' = 0
    /\ totalProcessedChunks' = 0
    /\ pdfLinks' = <<>>
    /\ source' = "none"
    /\ linkIdx' = 0
    /\ downloadedFiles' = 0
    /\ redirects' = 0
    /\ text' = <<>>
    /\ startIndex' = 0
    /\ chunks' = <<>>
    /\ windows' = <<>>
    /\ cpc' = "idle"
    /\ UNCHANGED <<fn, chunkSize, overlap>>
    /\ UNCHANGED <<processor, dir, index, failures, embeds, upserts, reports, indexAfter,
                   passed, trace, env, page, fetchLog>>
    /\ UNCHANGED webVars

\* The runs that are stopped and resumed find an empty directory or a document of
\* the backup list, every credential, a listing of one or two documents, and no
\* remote call of theirs fails.
InitResume ==
    /\ FirstStart
    /\ failures = MaxFailures
    /\ dir \in RunDirectories
    /\ \A k \in 1..Len(dir) : dir[k].name = backupDocs[1]
    /\ env = Credentials
    /\ page \in {pageOf(1), pageOf(2)}

NextResume ==
    \/ LoadModule
    \/ Validate
    \/ ListingResponse
    \/ DownloadStep
    \/ DownloadResponse
    \/ StreamEnd
    \/ DownloadsDone
    \/ ListFiles
    \/ OpenFile
    \/ SplitCall
    \/ SplitIterate
    \/ StartChunks
    \/ ChunkStep
    \/ EmbedResponse
    \/ UpsertResponse
    \/ FinishFile
    \/ EndRun
    \/ Kill
    \/ Restart

SpecResume == InitResume /\ [][NextResume]_vars

----------------------------------------------------------------------------
(* The query endpoint: pages/api/query.js holds two versions of handler,   *)
(* pages/index.js a third. A version serves one request: the code up to    *)
(* the first await, then one step per downstream call that settles.        *)

MaxMatches == 3    \* most matches a similarity search returns in the model
MaxRequests == 2   \* requests a deployment serves in a behaviour

TOP_K == 5

Handlers == {"first", "second", "third"}

METHOD_NOT_ALLOWED == "Method not allowed"
QUERY_REQUIRED == "Query is required"
OPENROUTER_REQUIRED == "OPENROUTER_API_KEY environment variable is required"
OPENAI_REQUIRED == "OPENAI_API_KEY environment variable is required"
PINECONE_INCOMPLETE == "Pinecone configuration is incomplete. Check PINECONE_API_KEY and PINECONE_INDEX_NAME environment variables."
OPENROUTER_NOT_CONFIGURED == "OpenRouter API key is not configured"
OPENAI_NOT_CONFIGURED == "OpenAI API key is not configured"
EMBEDDINGS_FAILED == "Failed to generate embeddings from OpenAI API"
PROCESSING_ERROR == "An error occurred while processing your query"
NOT_ENOUGH_INFORMATION == "I don't have enough information to answer this question based on the JFK Archives."

QueryCredentials ==
    {"OPENROUTER_API_KEY", "OPENAI_API_KEY", "PINECONE_API_KEY", "PINECONE_INDEX_NAME"}

\* req.body as the body parser leaves it: null, an object without query, or an
\* object with query
Queries == {<<>>, <<" ">>, <<"q">>}

Bodies ==
    {[json |-> "null", query |-> <<>>], [json |-> "noquery", query |-> <<>>]}
    \cup {[json |-> "query", query |-> q] : q \in Queries}

Requests == [method : {"POST", "GET"}, body : Bodies]

\* const { query } = req.body throws on a null body
destructures(body) == body.json # "null"

\* !query
queryMissing(body) == body.json = "noquery" \/ body.query = <<>>

\* The configuration checks of a version, in order: the message of the first
\* that fails, "" when all pass
configError(h, e) ==
    CASE h = "first" ->
           IF "OPENROUTER_API_KEY" \notin e THEN OPENROUTER_REQUIRED
           ELSE IF "OPENAI_API_KEY" \notin e THEN OPENAI_REQUIRED
           ELSE IF "PINECONE_API_KEY" \notin e \/ "PINECONE_INDEX_NAME" \notin e
                THEN PINECONE_INCOMPLETE
           ELSE ""
      [] h = "second" ->
           IF "OPENROUTER_API_KEY" \notin e THEN OPENROUTER_NOT_CONFIGURED ELSE ""
      [] h = "third" ->
           IF "OPENAI_API_KEY" \notin e THEN OPENAI_NOT_CONFIGURED ELSE ""

\* What the embedding call can come back with: a vector, an error status with a
\* JSON body, an error status with another body, a JSON body without data, or
\* no response at all (the request throws)
EmbeddingOutcomes == {"ok", "status", "statusText", "malformed", "rejected"}

embeddingResult_unchecked(h, outcome) == "vector"

\* What a version makes of it: "vector", "failed" (its own 500), "thrown"
embeddingResult(h, outcome) ==
    CASE outcome = "ok" -> "vector"
      [] outcome = "status" /\ h = "first" -> "failed"
      [] OTHER -> "thrown"

\* The matches a search can return, best score first
MatchPool ==
    {[id |-> "m1", score |-> 90, metadata |-> TRUE, text |-> <<"a", ".">>,
      source |-> "w.pdf", url |-> "u"],
     [id |-> "m2", score |-> 80, metadata |-> TRUE, text |-> <<"b">>,
      source |-> "", url |-> ""],
     [id |-> "m3", score |-> 80, metadata |-> TRUE, text |-> <<"a">>,
      source |-> "h.pdf", url |-> ""],
     [id |-> "m4", score |-> 70, metadata |-> FALSE, text |-> <<>>,
      source |-> "", url |-> ""]}

MatchLists ==
    {ms \in UNION {[1..n -> MatchPool] : n \in 0..Min2(MaxMatches, TOP_K)} :
        \A j, k \in 1..Len(ms) :
            j < k => ms[j].id # ms[k].id /\ ms[j].score >= ms[k].score}

\* What the search can come back with: a response without matches, a response
\* with a list, or a throw
SearchResults ==
    {[listed |-> FALSE, list |-> <<>>]} \cup {[listed |-> TRUE, list |-> ms] : ms \in MatchLists}

\* queryResponse.matches || []
matchesOf(queryResponse) == IF queryResponse.listed THEN queryResponse.list ELSE <<>>

RECURSIVE join(_, _)
join(parts, separator) ==
    IF parts = <<>> THEN <<>>
    ELSE IF Len(parts) = 1 THEN parts[1]
    ELSE parts[1] \o separator \o join(Tail(parts), separator)

\* matches.map(match => match.metadata.text).join('\n\n')
contextOf(ms) == join([k \in 1..Len(ms) |-> ms[k].text], <<NL, NL>>)

sourcesOf_reversed(ms) ==
    [k \in 1..Len(ms) |->
        [id |-> ms[Len(ms) + 1 - k].id, score |-> ms[Len(ms) + 1 - k].score,
         document |-> "Unknown", url |-> ""]]

\* matches.map(match => ({id, score, document, url}))
sourcesOf(ms) ==
    [k \in 1..Len(ms) |->
        [id |-> ms[k].id, score |-> ms[k].score,
         document |-> IF ms[k].source = "" THEN "Unknown" ELSE ms[k].source,
         url |-> ms[k].url]]

GenerationOutcomes == {"ok", "nochoices", "unparsable", "rejected"}

GENERATED == "generated"

failure(status, message) ==
    [status |-> status, error |-> message, answer |-> "", sources |-> <<>>]

success(text_, srcs) ==
    [status |-> 200, error |-> "", answer |-> text_, sources |-> srcs]

noMatchResponse_error == failure(500, PROCESSING_ERROR)

\* The reply to a search without matches
noMatchResponse == success(NOT_ENOUGH_INFORMATION, <<>>)

\* The outcomes of a downstream call that are a failure of its stage
failed(call) ==
    \/ call.stage = "embed" /\ call.outcome # "ok"
    \/ call.stage = "search" /\ call.outcome = "rejected"
    \/ call.stage = "generate" /\ call.outcome # "ok"

failedStage(st) ==
    IF st # <<>> /\ failed(st[Len(st)]) THEN st[Len(st)].stage ELSE "none"

Send_nothing(response) ==
    /\ UNCHANGED responses
    /\ hpc' = "done"
    /\ served' = Append(served, [failed |-> failedStage(settled'),
                                 status |-> response.status, error |-> response.error])

\* res.status(..).json(..), after which the handler is left
Send(response) ==
    /\ responses' = Append(responses, response)
    /\ hpc' = "done"
    /\ served' = Append(served, [failed |-> failedStage(settled'),
                                 status |-> response.status, error |-> response.error])

issue(stage, input) == Append(calls, [stage |-> stage, input |-> input])

back(stage, outcome) == Append(settled, [stage |-> stage, outcome |-> outcome])

\* From the entry of handler to its first await
HandleRequest ==
    /\ hpc = "received"
    /\ UNCHANGED settled
    /\ IF req.method # "POST" THEN
            Send(failure(405, METHOD_NOT_ALLOWED)) /\ UNCHANGED calls
       ELSE IF ~destructures(req.body) THEN
            Send(failure(500, PROCESSING_ERROR)) /\ UNCHANGED calls
       ELSE IF queryMissing(req.body) THEN
            Send(failure(400, QUERY_REQUIRED)) /\ UNCHANGED calls
       ELSE IF configError(handler, env) # "" THEN
            Send(failure(500, configError(handler, env))) /\ UNCHANGED calls
       ELSE /\ calls' = issue("embed", req.body.query)
            /\ hpc' = "embedding"
            /\ UNCHANGED <<responses, served>>
    /\ UNCHANGED <<handler, req, matches>>
    /\ UNCHANGED homeVars
    /\ UNCHANGED ingestVars
    /\ UNCHANGED chunkerVars

\* The embedding call settles; with a vector the Pinecone client is built and the
\* search is issued. What the client library does without its key or index name is
\* not in the repository: it throws or it does not.
EmbeddingResponse ==
    /\ hpc = "embedding"
    /\ \E outcome \in EmbeddingOutcomes :
          LET result == embeddingResult(handler, outcome)
          IN  /\ settled' = back("embed", outcome)
              /\ CASE result = "failed" ->
                        Send(failure(500, EMBEDDINGS_FAILED)) /\ UNCHANGED calls
                   [] result = "thrown" ->
                        Send(failure(500, PROCESSING_ERROR)) /\ UNCHANGED calls
                   [] result = "vector" ->
                        \E libraryThrows \in BOOLEAN :
                           /\ libraryThrows =>
                                 ~({"PINECONE_API_KEY", "PINECONE_INDEX_NAME"} \subseteq env)
                           /\ IF libraryThrows THEN
                                   Send(failure(500, PROCESSING_ERROR)) /\ UNCHANGED calls
                              ELSE /\ calls' = issue("search", <<>>)
                                   /\ hpc' = "searching"
                                   /\ UNCHANGED <<responses, served>>
    /\ UNCHANGED <<handler, req, matches>>
    /\ UNCHANGED homeVars
    /\ UNCHANGED ingestVars
    /\ UNCHANGED chunkerVars

\* The search settles; with matches the context is built and the generation call
\* is issued.
SearchResponse ==
    /\ hpc = "searching"
    /\ \/ /\ settled' = back("search", "rejected")
          /\ Send(failure(500, PROCESSING_ERROR))
          /\ UNCHANGED <<calls, matches>>
       \/ \E queryResponse \in SearchResults :
             /\ settled' = back("search", IF ~queryResponse.listed THEN "nolist"
                                          ELSE IF queryResponse.list = <<>> THEN "empty"
                                          ELSE "matches")
             /\ matches' = matchesOf(queryResponse)
             /\ IF Len(matches') = 0 THEN
                     Send(noMatchResponse) /\ UNCHANGED calls
                ELSE IF \E k \in 1..Len(matches') : ~matches'[k].metadata THEN
                     Send(failure(500, PROCESSING_ERROR)) /\ UNCHANGED calls
                ELSE /\ calls' = issue("generate", contextOf(matches'))
                     /\ hpc' = "generating"
                     /\ UNCHANGED <<responses, served>>
    /\ UNCHANGED <<handler, req>>
    /\ UNCHANGED homeVars
    /\ UNCHANGED ingestVars
    /\ UNCHANGED chunkerVars

\* The generation call settles.
GenerationResponse ==
    /\ hpc = "generating"
    /\ \E outcome \in GenerationOutcomes :
          /\ settled' = back("generate", outcome)
          /\ IF outcome = "ok" THEN Send(success(GENERATED, sourcesOf(matches)))
             ELSE Send(failure(500, PROCESSING_ERROR))
    /\ UNCHANGED <<handler, req, matches, calls>>
    /\ UNCHANGED homeVars
    /\ UNCHANGED ingestVars
    /\ UNCHANGED chunkerVars

\* No ingestion run and no chunker call
NoRun ==
    /\ processor = "none"
    /\ dir = <<>>
    /\ index = <<>>
    /\ run = 0
    /\ ipc = "none"
    /\ files = <<>>
    /\ fileIdx = 0
    /\ i = 0
    /\ processedChunks = 0
    /\ failedChunks = 0
    /\ totalProcessedChunks = 0
    /\ failures = 0
    /\ embeds = <<>>
    /\ upserts = <<>>
    /\ reports = <<>>
    /\ indexAfter = <<>>
    /\ passed = <<>>
    /\ trace = <<>>
    /\ exitCode = NotExited
    /\ page = <<>>
    /\ pdfLinks = <<>>
    /\ source = "none"
    /\ linkIdx = 0
    /\ downloadedFiles = 0
    /\ redirects = 0
    /\ fetchLog = <<>>
    /\ fn = "none"
    /\ text = <<>>
    /\ chunkSize = CHUNK_SIZE
    /\ overlap = CHUNK_OVERLAP
    /\ startIndex = 0
    /\ chunks = <<>>
    /\ windows = <<>>
    /\ cpc = "idle"

\* The environments of the endpoint: everything set, or one setting missing
QueryEnvironments ==
    {QueryCredentials} \cup {QueryCredentials \ {c} : c \in QueryCredentials}

InitQuery ==
    /\ NoRun
    /\ NoHome
    /\ env \in QueryEnvironments
    /\ handler \in Handlers
    /\ req \in Requests
    /\ hpc = "received"
    /\ matches = <<>>
    /\ calls = <<>>
    /\ responses = <<>>
    /\ settled = <<>>
    /\ served = <<>>

\* The deployment receives its next request: handler is entered anew.
NextRequest ==
    /\ hpc = "done"
    /\ Len(served) < MaxRequests
    /\ req' \in Requests
    /\ hpc' = "received"
    /\ matches' = <<>>
    /\ calls' = <<>>
    /\ responses' = <<>>
    /\ settled' = <<>>
    /\ UNCHANGED <<handler, served>>
    /\ UNCHANGED homeVars
    /\ UNCHANGED ingestVars
    /\ UNCHANGED chunkerVars

NextQuery ==
    \/ HandleRequest
    \/ EmbeddingResponse
    \/ SearchResponse
    \/ GenerationResponse
    \/ NextRequest

SpecQuery == InitQuery /\ [][NextQuery]_vars

----------------------------------------------------------------------------
(* The Home page of pages/index.js: its state variables, the input, the    *)
(* form and the request to /api/query.                                     *)

MaxSubmits == 3    \* submit events of the form in a behaviour

QUERY_FAILED == "An error occurred while processing your query. Please try again."

\* What can stand in the input
Inputs == {<<>>, <<" ">>, <<"q">>, <<" ", "q">>}

blank_untrimmed(q) == q = <<>>

\* !query.trim()
blank(q) == trim(q) = <<>>

\* What fetch('/api/query') can come back with: no response (it rejects), a
\* response that is not ok, an ok response whose body is not JSON, is null, or
\* is an object with or without answer and sources
FetchResults ==
    {[kind |-> k, answer |-> "", listed |-> FALSE, sources |-> <<>>] :
        k \in {"rejected", "notok", "unparsable", "null"}}
    \cup {[kind |-> "data", answer |-> a, listed |-> l, sources |-> IF l THEN srcs ELSE <<>>] :
            a \in {"", GENERATED, NOT_ENOUGH_INFORMATION}, l \in BOOLEAN,
            srcs \in {<<>>, sourcesOf(<<CHOOSE m \in MatchPool : m.id = "m1">>)}}

throwsInTry_okIgnored(result) == result.kind \in {"rejected", "unparsable", "null"}

\* The try block of handleSubmit throws: fetch rejects, the response is not ok,
\* response.json() throws, or data is null
throwsInTry(result) == result.kind \in {"rejected", "notok", "unparsable", "null"}

\* onChange of the input, which is disabled while loading
SetQuery ==
    /\ ~loading
    /\ \E value \in Inputs :
          /\ value # query
          /\ query' = value
    /\ UNCHANGED <<answer, sources, loading, error, fetching, sent, replies, submits>>
    /\ UNCHANGED handlerVars
    /\ UNCHANGED ingestVars
    /\ UNCHANGED chunkerVars

\* handleSubmit up to its await; the submit button is disabled while loading
HandleSubmit ==
    /\ ~loading
    /\ submits < MaxSubmits
    /\ submits' = submits + 1
    /\ IF blank(query) THEN
            UNCHANGED <<loading, error, answer, sources, fetching, sent>>
       ELSE /\ loading' = TRUE
            /\ error' = ""
            /\ answer' = ""
            /\ sources' = <<>>
            /\ fetching' = TRUE
            /\ sent' = Append(sent, query)
    /\ UNCHANGED <<query, replies>>
    /\ UNCHANGED handlerVars
    /\ UNCHANGED ingestVars
    /\ UNCHANGED chunkerVars

\* handleSubmit from the settled fetch to the end of its finally
FetchSettles ==
    /\ fetching
    /\ \E result \in FetchResults :
          /\ replies' = Append(replies, result.kind)
          /\ IF throwsInTry(result) THEN
                  /\ error' = QUERY_FAILED
                  /\ UNCHANGED <<answer, sources>>
             ELSE /\ answer' = result.answer
                  /\ sources' = (IF result.listed THEN result.sources ELSE <<>>)
                  /\ UNCHANGED error
    /\ loading' = FALSE
    /\ fetching' = FALSE
    /\ UNCHANGED <<query, sent, submits>>
    /\ UNCHANGED handlerVars
    /\ UNCHANGED ingestVars
    /\ UNCHANGED chunkerVars

InitHome ==
    /\ NoRun
    /\ env = {}
    /\ NoHandler
    /\ NoHome

NextHome ==
    \/ SetQuery
    \/ HandleSubmit
    \/ FetchSettles

SpecHome == InitHome /\ [][NextHome]_vars

\* The same, with every downstream call coming back and every request handled
SpecQueryLive == SpecQuery /\ WF_vars(NextQuery)

----------------------------------------------------------------------------
(* Properties of the chunkers *)

Returned == cpc = "returned"
IsSplitText == fn = "splitTextIntoChunks"
IsSplit == fn = "splitIntoChunks"

\* The chunks in order, each but the first without its leading ov characters.
RECURSIVE joinWithoutOverlap(_, _)
joinWithoutOverlap(cs, ov) ==
    IF cs = <<>> THEN <<>>
    ELSE IF Len(cs) = 1 THEN cs[1]
    ELSE LET last == cs[Len(cs)]
         IN  joinWithoutOverlap(SubSeq(cs, 1, Len(cs) - 1), ov)
                \o SubSeq(last, ov + 1, Len(last))

\* The untrimmed substrings the chunks were cut from (the whole text on the early return).
windowTexts ==
    IF windows = <<>> THEN chunks
    ELSE [k \in 1..Len(windows) |-> slice(text, windows[k][1], windows[k][2])]

lastChars(s, k) == SubSeq(s, Len(s) - k + 1, Len(s))
firstChars(s, k) == SubSeq(s, 1, k)

\* C1: splitTextIntoChunks terminates for every text and every 0 <= overlap < chunkSize:
\* the window start strictly increases on every iteration of its loop.
C1_StartStrictlyIncreases ==
    [][(cpc = "loop" /\ IsSplitText) => startIndex' > startIndex]_vars

\* C2: splitIntoChunks terminates: once the window whose end is text.length has
\* been pushed, the loop is left and no further chunk is produced.
C2_LoopLeftAfterLastWindow ==
    (IsSplit /\ windows # <<>> /\ windows[Len(windows)][2] = Len(text)) => Returned

\* C3: for a text longer than the chunk size, every returned chunk is at most
\* chunk size characters long.
C3_ChunkLengthBound ==
    (Returned /\ Len(text) > chunkSize)
        => \A k \in 1..Len(chunks) : Len(chunks[k]) <= chunkSize

\* C4 as claimed: the returned chunks, joined with the overlap removed, are the text.
C4_ChunksRebuildText ==
    Returned => joinWithoutOverlap(chunks, overlap) = text

\* C4 as amended: the untrimmed windows, joined with the overlap removed, are the
\* text, and every chunk pushed by the loop is its window trimmed (the chunk of the
\* early return is the text itself).
C4_WindowsRebuildText ==
    Returned =>
        /\ joinWithoutOverlap(windowTexts, overlap) = text
        /\ Len(chunks) = Len(windowTexts)
        /\ \A k \in 1..Len(chunks) :
              chunks[k] = IF windows = <<>> THEN text ELSE trim(windowTexts[k])

\* C4 witness: a returned run of several windows with an overlap in which trimming
\* removed characters.
C4_Witness ==
    /\ Returned /\ Len(windows) >= 3 /\ overlap >= 1
    /\ \E k \in 1..Len(chunks) : chunks[k] # windowTexts[k]

\* C5 as claimed: consecutive returned chunks, the pair ending in the final chunk
\* excepted, share overlap characters (pairs with a chunk shorter than the overlap
\* are let through).
C5_ChunksShareOverlap ==
    Returned =>
        \A k \in 1..(Len(chunks) - 2) :
            (Len(chunks[k]) >= overlap /\ Len(chunks[k + 1]) >= overlap)
                => lastChars(chunks[k], overlap) = firstChars(chunks[k + 1], overlap)

\* C5 as amended: every window after the first starts overlap characters before
\* the end of the window before it, and the two untrimmed windows share these
\* overlap characters (the final pair included).
C5_WindowsShareOverlap ==
    Returned =>
        \A k \in 1..(Len(windows) - 1) :
            /\ windows[k + 1][1] = windows[k][2] - overlap
            /\ Len(windowTexts[k]) >= overlap
            /\ Len(windowTexts[k + 1]) >= overlap
            /\ lastChars(windowTexts[k], overlap) = firstChars(windowTexts[k + 1], overlap)

\* C5 witness: a returned run of at least three windows that overlap by two characters.
C5_Witness ==
    /\ Returned /\ Len(windows) >= 3 /\ overlap >= 2
    /\ \E k \in 1..(Len(windows) - 1) : chunks[k] # windowTexts[k]

\* C6 as claimed: a text of 2500 characters with the default parameters is
\* returned as exactly 3 chunks, each window starting 200 before the end of the
\* window before it.
C6_ThreeChunks ==
    Returned =>
        /\ Len(chunks) = 3
        /\ \A k \in 1..(Len(windows) - 1) :
              windows[k + 1][1] = windows[k][2] - CHUNK_OVERLAP

\* C6 as amended: each window starts 200 before the end of the window before it,
\* the window that ends at the end of the text is the third or the fourth, and
\* splitTextIntoChunks returns after it, with 3 or 4 chunks (3 when no window end
\* was pulled back by more than one character).
C6_ThreeOrFourChunks ==
    /\ \A k \in 1..(Len(windows) - 1) :
          windows[k + 1][1] = windows[k][2] - CHUNK_OVERLAP
    /\ \A k \in 1..Len(windows) : windows[k][2] = Len(text) => k >= 3
    /\ Len(windows) >= 4 => windows[4][2] = Len(text)
    /\ (IsSplitText /\ windows # <<>> /\ windows[Len(windows)][2] = Len(text)) => Returned
    /\ Returned =>
          /\ IsSplitText
          /\ Len(chunks) \in {3, 4}
          /\ Len(chunks) = Len(windows)
          /\ windows[Len(windows)][2] = Len(text)
          /\ (\A k \in 1..Len(windows) :
                 windows[k][2] >= Min2(windows[k][1] + CHUNK_SIZE, Len(text)) - 1)
                => Len(chunks) = 3

\* C6 witness: splitTextIntoChunks has returned four chunks for a text of 2500 characters.
C6_Witness ==
    /\ Returned /\ IsSplitText /\ Len(text) = LongLen /\ Len(chunks) = 4

----------------------------------------------------------------------------
(* Properties of the ingestion loops *)

Done == ipc = "done"
InChunkLoop == ipc \in {"loop", "embedding", "upserting"}
IsProcessPdfFile == processor = "processPdfFile"

\* The chunks of file f of run r that the loop skipped or getEmbedding rejected
passedOf(r, f, how) == {e \in passed[r] : e.file = f /\ e.how = how}
embedsOf(r, f) == {e \in embeds[r] : e.file = f}
upsertsOf(r, f) == {e \in upserts[r] : e.file = f}

RECURSIVE sumOfFailed(_)
sumOfFailed(rs) == IF rs = <<>> THEN 0 ELSE rs[1].failed + sumOfFailed(Tail(rs))

\* Three documents were ingested in run r, every embedding request for a chunk of
\* the second one failed, every other remote call succeeded, and the first
\* and the third document could be read.
SecondDocumentFailed(r) ==
    /\ Len(files) = 3
    /\ Len(reports[r]) = 3
    /\ \A k \in 1..3 : reports[r][k].file = k
    /\ ~reports[r][1].error /\ ~reports[r][3].error
    /\ \A e \in embeds[r] : (e.result = "ok") <=> (e.file # 2)
    /\ \A u \in upserts[r] : u.result = "ok"

C8_IdsUnique ==
    \A r \in DOMAIN upserts : \A u1, u2 \in upserts[r] :
        u1.id = u2.id => (u1.file = u2.file /\ u1.chunk = u2.chunk)

\* Every remote call of run r succeeded.
AllCallsSucceeded(r) ==
    /\ \A e \in embeds[r] : e.result = "ok"
    /\ \A u \in upserts[r] : u.result = "ok"

idsUpserted(r) == {u.id : u \in upserts[r]}

\* C9: a run that has ended after the first one, every remote call of both having
\* succeeded, has issued upserts for the ids of the first run, and the index holds
\* the ids it held after the first run, each of them once.
C9_ReingestionIdempotent ==
    \A r \in 2..run :
        ((r < run \/ Done) /\ AllCallsSucceeded(1) /\ AllCallsSucceeded(r)) =>
            /\ idsUpserted(r) = idsUpserted(1)
            /\ indexAfter[r] = indexAfter[1]
            /\ indexAfter[1] = idsUpserted(1)
            /\ DOMAIN index = indexAfter[r]

\* C9 witness: a second run has ended, both runs without a failed call, and
\* records were upserted.
C9_Witness ==
    /\ run = 2 /\ Done
    /\ AllCallsSucceeded(1) /\ AllCallsSucceeded(2)
    /\ Cardinality(idsUpserted(2)) >= 2

\* C10: a chunk whose trimmed length is below 10 gets no embedding request and no
\* upsert and is counted neither as processed nor as failed: in the chunk loop the
\* two counters together count at most the chunks before i that are long enough.
C10_ShortChunkSkipped ==
    InChunkLoop =>
        /\ processedChunks + failedChunks
              <= Cardinality({c \in 0..(i - 1) :
                                 Len(trim(chunks[c + 1])) >= MIN_CHUNK_LENGTH})
        /\ \A e \in embedsOf(run, fileIdx) :
              Len(trim(chunks[e.chunk + 1])) >= MIN_CHUNK_LENGTH
        /\ \A u \in upsertsOf(run, fileIdx) :
              Len(trim(chunks[u.chunk + 1])) >= MIN_CHUNK_LENGTH

\* The positions in the trace of run r of the events of this kind
eventsAt(r, kind) == {k \in 1..Len(trace[r]) : trace[r][k].kind = kind}

\* The chunk of this trace event failed: its embedding request or its upsert did
\* not succeed, or getEmbedding rejected it.
chunkFailed(r, e) ==
    \/ \E c \in embeds[r] : c.file = e.file /\ c.chunk = e.chunk
                                     /\ c.result \in {"throw", "invalid"}
    \/ \E u \in upserts[r] : u.file = e.file /\ u.chunk = e.chunk /\ u.result = "throw"
    \/ \E x \in passed[r] : x.file = e.file /\ x.chunk = e.chunk /\ x.how = "rejected"

\* C11: between two embedding requests of a run a delay is waited, and a delay
\* waited after a failed chunk is longer than one waited after a successful chunk.
C11_DelayBetweenEmbeddingCalls ==
    \A r \in DOMAIN trace :
        /\ \A p, q \in eventsAt(r, "embed") :
              p < q => \E k \in (p + 1)..(q - 1) : trace[r][k].kind = "delay"
        /\ \A p, q \in eventsAt(r, "delay") :
              (chunkFailed(r, trace[r][p]) /\ ~chunkFailed(r, trace[r][q]))
                  => trace[r][p].ms > trace[r][q].ms

\* C19 (processDocuments): for a document that cannot be read extractTextFromPDF
\* returns a stub of at least 10 characters other than whitespace; once the loop is
\* past the document an embedding request has been issued for the stub, its one
\* chunk, and its summary has been logged; and a run that ends has logged the
\* summary of every file.
C19_StubIsIngested ==
    (processor = "processDocuments" /\ ipc \notin {"none", "list"}) =>
        /\ \A k \in 1..Len(files) :
              (files[k].pdf = "corrupt" /\ fileIdx > k) =>
                  /\ Len(trim(extractTextFromPDF(files[k]))) >= MIN_CHUNK_LENGTH
                  /\ \E e \in embeds[run] : e.file = k /\ e.chunk = 0
                  /\ \E j \in 1..Len(reports[run]) :
                        reports[run][j].file = k /\ reports[run][j].chunks = 1
        /\ Done => \A k \in 1..Len(files) :
                      \E j \in 1..Len(reports[run]) : reports[run][j].file = k

\* C19 witness: processDocuments has ended a run of two files or more, the first
\* of which could not be read, and the stub of that one was upserted.
C19_Witness ==
    /\ processor = "processDocuments" /\ Done
    /\ Len(files) >= 2
    /\ files[1].pdf = "corrupt"
    /\ \E u \in upserts[run] : u.file = 1 /\ u.chunk = 0 /\ u.result = "ok"

isCall(e) == e.kind \in {"embed", "upsert"}
callsOf(r) == SelectSeq(trace[r], isCall)
callRank(e) == 2 * e.chunk + (IF e.kind = "upsert" THEN 1 ELSE 0)
pendingCalls(r) ==
    Cardinality({e \in embeds[r] : e.result = "pending"})
      + Cardinality({u \in upserts[r] : u.result = "pending"})

\* C20: the calls of a run are issued file after file and, within a file, in the
\* order embed(0), upsert(0), embed(1), upsert(1), ..., none of them twice; at most
\* one call is in flight; and an upsert is issued only for a chunk whose embedding
\* request has succeeded.
C20_SequentialNoRetry ==
    \A r \in DOMAIN trace :
        /\ \A p, q \in 1..Len(callsOf(r)) :
              p < q =>
                 \/ callsOf(r)[p].file < callsOf(r)[q].file
                 \/ /\ callsOf(r)[p].file = callsOf(r)[q].file
                    /\ callRank(callsOf(r)[p]) < callRank(callsOf(r)[q])
        /\ pendingCalls(r) <= 1
        /\ \A u \in upserts[r] :
              [file |-> u.file, chunk |-> u.chunk, result |-> "ok"] \in embeds[r]
        /\ \A q \in eventsAt(r, "upsert") :
              \E p \in eventsAt(r, "embed") :
                  /\ p < q
                  /\ trace[r][p].file = trace[r][q].file
                  /\ trace[r][p].chunk = trace[r][q].chunk

\* C20 witness: a file of two chunks whose first embedding request failed and
\* whose second chunk was embedded and upserted.
C20_Witness ==
    /\ ipc = "loop"
    /\ Len(chunks) = 2 /\ i = 2
    /\ \E e \in embeds[run] : e.file = fileIdx /\ e.chunk = 0 /\ e.result = "throw"
    /\ \E u \in upserts[run] : u.file = fileIdx /\ u.chunk = 1 /\ u.result = "ok"

----------------------------------------------------------------------------
(* Properties of the start of the scripts and of the downloads *)

Exited == exitCode # NotExited
lastEvent(r) == fetchLog[r][Len(fetchLog[r])]
fetchEvents(r, kind) == {k \in 1..Len(fetchLog[r]) : fetchLog[r][k].kind = kind}
fileNamed(d, name) == d[CHOOSE k \in 1..Len(d) : d[k].name = name]

\* C12: a process that has exited has a status other than zero exactly when one
\* of the three credentials is missing.
C12_ExitStatusTellsCredentials ==
    Exited => ((exitCode # 0) <=> ~(Credentials \subseteq env))

\* C13: with every credential set, a run that has exited has passed the file
\* placed by hand in the documents directory to the chunk loop.
C13_PlacedFileIsProcessed ==
    (Exited /\ env = Credentials /\ existsSync(dir, FileNames[3])) =>
        \E k \in 1..Len(files) : files[k].name = FileNames[3] /\ fileIdx > k

\* C14: a file that a run skips as already existing is a complete download.
C14_SkippedFileIsComplete ==
    \A r \in Runs : \A k \in fetchEvents(r, "skip") :
        existsSync(dir, fetchLog[r][k].name)
            => fileNamed(dir, fetchLog[r][k].name).pdf # "partial"

\* C15: when a download has just failed, no file is at its output path.
C15_NoFileAfterFailedDownload ==
    \A r \in Runs :
        (r = run /\ fetchLog[r] # <<>> /\ lastEvent(r).kind = "failed")
            => ~existsSync(dir, lastEvent(r).name)

\* The listing of the run yielded no link: the page could not be fetched, or it
\* has no matching link.
zeroLinks(r) ==
    \/ fetchEvents(r, "listing failed") # {}
    \/ fetchEvents(r, "listed") # {} /\ page = <<>>

obtained(r, name) ==
    \E k \in fetchEvents(r, "skip") \cup fetchEvents(r, "saved") : fetchLog[r][k].name = name

\* C16 (scripts/ingest-documents.js): when the listing yields no link the download
\* loop runs over the backup list; once it is over, each of the two documents was
\* skipped as existing or requested; a run that ends has processed every backup
\* document that was obtained, and a run that returned before processing has
\* obtained none.
C16_BackupListOnZeroLinks ==
    (IsProcessPdfFile /\ zeroLinks(run)) =>
        /\ source = "backup"
        /\ pdfLinks = backupDocs
        /\ ipc \notin {"links", "downloading", "streaming"} =>
              \A n \in 1..Len(backupDocs) :
                 \E k \in fetchEvents(run, "skip") \cup fetchEvents(run, "request") :
                    fetchLog[run][k].name = backupDocs[n]
        /\ Done => \A n \in 1..Len(backupDocs) :
                      obtained(run, backupDocs[n]) =>
                         \E k \in 1..Len(files) :
                            /\ files[k].name = backupDocs[n]
                            /\ \E j \in 1..Len(reports[run]) : reports[run][j].file = k
        /\ ipc = "exited" => \A n \in 1..Len(backupDocs) : ~obtained(run, backupDocs[n])

\* C16 witness: the page could not be fetched, the second backup document was
\* downloaded, and the run has ended with a chunk of it upserted.
C16_Witness ==
    /\ IsProcessPdfFile /\ Done
    /\ fetchEvents(run, "listing failed") # {}
    /\ \E k \in fetchEvents(run, "saved") : fetchLog[run][k].name = backupDocs[2]
    /\ \E u \in upserts[run] : files[u.file].name = backupDocs[2] /\ u.result = "ok"

\* C17: a step of the download loop on a document whose file exists issues no
\* request, leaves the directory as it is and counts the document as downloaded;
\* a request is issued only for a document whose file does not exist.
C17_ExistingFileIsSkipped ==
    [][ (ipc = "links" /\ linkIdx <= Len(pdfLinks) /\ ipc' # "killed") =>
           IF existsSync(dir, pdfLinks[linkIdx])
           THEN /\ dir' = dir
                /\ downloadedFiles' = downloadedFiles + 1
                /\ fetchLog'[run] = Append(fetchLog[run],
                                           [kind |-> "skip", name |-> pdfLinks[linkIdx]])
                /\ ipc' = "links"
           ELSE fetchLog'[run] = Append(fetchLog[run],
                                        [kind |-> "request", name |-> pdfLinks[linkIdx]])
      ]_vars

\* C17 witness: the loop has skipped an existing file and requested an absent one.
C17_Witness ==
    /\ fetchEvents(run, "skip") # {}
    /\ fetchEvents(run, "request") # {}
    /\ downloadedFiles >= 1

\* C18: the documents taken from the listing page are at most MAX_DOCUMENTS, and
\* so are the documents the loop over them has skipped or requested.
C18_ListingCapped ==
    source = "primary" =>
        /\ Len(pdfLinks) <= maxDocuments(processor)
        /\ Cardinality(fetchEvents(run, "request")) <= maxDocuments(processor)
        /\ Cardinality(fetchEvents(run, "request") \cup fetchEvents(run, "skip"))
              <= maxDocuments(processor)

\* C18 witness: a page of more links than MAX_DOCUMENTS, and the loop over the
\* links taken from it is over.
C18_Witness ==
    /\ source = "primary"
    /\ Len(page) > maxDocuments(processor)
    /\ Len(pdfLinks) = maxDocuments(processor)
    /\ linkIdx > Len(pdfLinks)

----------------------------------------------------------------------------
(* Properties of the query endpoint *)

Answered == hpc = "done"
IsPost == req.method = "POST"
carriesQuery == req.body.json = "query" /\ req.body.query # <<>>
stagesOf(cs) == [k \in 1..Len(cs) |-> cs[k].stage]
lastSettled == settled[Len(settled)]

\* C21: a POST whose body carries no query, or an empty one, is answered with
\* status 400 and without any downstream call, whatever the configuration.
C21_MissingQueryIs400 ==
    (Answered /\ IsPost /\ ~carriesQuery) =>
        /\ Len(responses) = 1
        /\ responses[1].status = 400
        /\ calls = <<>>

\* The search of the request came back without any match
NoMatch ==
    /\ settled # <<>>
    /\ lastSettled.stage = "search"
    /\ lastSettled.outcome \in {"nolist", "empty"}

\* C22: when the search returns zero matches (an empty list or none), the
\* handler answers 200 with the canned answer and no sources, and the
\* generation call is not issued.
C22_NoMatchIsCannedAnswer ==
    NoMatch =>
        /\ Answered
        /\ Len(responses) = 1
        /\ responses[1].status = 200
        /\ responses[1].answer = NOT_ENOUGH_INFORMATION
        /\ responses[1].sources = <<>>
        /\ "generate" \notin {calls[k].stage : k \in 1..Len(calls)}

C22_Witness ==
    /\ NoMatch
    /\ lastSettled.outcome = "nolist"
    /\ Answered
    /\ stagesOf(calls) = <<"embed", "search">>

\* 0-based place of the k-th matched text in the context
placeOf(ms, k) == IF k = 1 THEN 0 ELSE Len(contextOf(SubSeq(ms, 1, k - 1))) + 2

\* C23: the sources of a 200 response have the length and the order of the
\* matches, sources[k] carrying the id and the score of matches[k], and the
\* context of the generation call holds the matched texts in that order,
\* separated by blank lines.
C23_SourcesFollowMatches ==
    /\ (Len(calls) = 3) =>
          LET context == calls[3].input
          IN  /\ \A k \in 1..Len(matches) :
                    slice(context, placeOf(matches, k),
                          placeOf(matches, k) + Len(matches[k].text)) = matches[k].text
              /\ \A k \in 1..(Len(matches) - 1) :
                    slice(context, placeOf(matches, k + 1) - 2,
                          placeOf(matches, k + 1)) = <<NL, NL>>
              /\ Len(context) = placeOf(matches, Len(matches))
                                    + Len(matches[Len(matches)].text)
    /\ (Answered /\ responses[1].status = 200 /\ matches # <<>>) =>
          /\ Len(responses[1].sources) = Len(matches)
          /\ \A k \in 1..Len(matches) :
                /\ responses[1].sources[k].id = matches[k].id
                /\ responses[1].sources[k].score = matches[k].score

C23_Witness ==
    /\ Answered
    /\ responses[1].status = 200
    /\ Len(matches) >= 2
    /\ matches[1].score > matches[Len(matches)].score
    /\ Len(calls) = 3

\* C24: failures of the embedding stage, of the search stage and of the
\* generation stage are answered with pairwise different error messages.
C24_StageFailuresDistinct ==
    \A j, k \in 1..Len(served) :
        (/\ served[j].failed # "none"
         /\ served[k].failed # "none"
         /\ served[j].failed # served[k].failed)
        => served[j].error # served[k].error

\* The settings a version of the handler reads
requiredOf(h) ==
    CASE h = "first" -> QueryCredentials
      [] h = "second" -> {"OPENROUTER_API_KEY", "PINECONE_API_KEY", "PINECONE_INDEX_NAME"}
      [] h = "third" -> {"OPENAI_API_KEY", "PINECONE_API_KEY", "PINECONE_INDEX_NAME"}

\* C25: when a setting the handler needs is absent, a query is answered 500
\* at once, without any embedding, search or generation call.
C25_MissingSettingIs500 ==
    (IsPost /\ carriesQuery /\ ~(requiredOf(handler) \subseteq env)) =>
        /\ calls = <<>>
        /\ Answered => responses[1].status = 500

C29_ExactlyOneResponse ==
    /\ [](Len(responses) <= 1)
    /\ [](Answered <=> Len(responses) = 1)
    /\ (hpc = "received") ~> (Len(responses) = 1)

C29_Witness ==
    /\ Len(served) = MaxRequests
    /\ Len(responses) = 1
    /\ Len(settled) = 3
    /\ settled[3].outcome = "unparsable"
    /\ req.method = "POST"

----------------------------------------------------------------------------
(* Properties of the Home page *)

\* C27: a submit of the form while the query is empty or only whitespace
\* sends no request and leaves loading, answer, sources and error as they are.
C27_BlankSubmitDoesNothing ==
    [][(submits' # submits /\ trim(query) = <<>>) =>
          UNCHANGED <<sent, fetching, loading, answer, sources, error>>]_vars

C27_Witness ==
    /\ submits = Len(sent) + 1
    /\ query = <<" ">>
    /\ answer = GENERATED
    /\ sources # <<>>
    /\ ~loading

\* The last request of the page has settled, and it failed
LastFetchFailed ==
    /\ ~fetching
    /\ replies # <<>>
    /\ replies[Len(replies)] \in {"rejected", "notok"}

\* C28: after a request that failed or was answered with a status that is
\* not a success, the page shows the error: error is set, answer and sources
\* are empty and loading is false; loading is true exactly while a request
\* that was submitted has not settled.
C28_FailureShowsError ==
    /\ loading <=> Len(sent) > Len(replies)
    /\ Len(sent) <= Len(replies) + 1
    /\ LastFetchFailed =>
          /\ error # ""
          /\ answer = ""
          /\ sources = <<>>
          /\ ~loading

C28_Witness ==
    /\ LastFetchFailed
    /\ replies = <<"data", "notok">>

----------------------------------------------------------------------------
(* Chunk accounting of processPdfFile *)

\* The chunks of file f of run r by what became of them
skippedOf(r, f) == {e.chunk : e \in passedOf(r, f, "skipped")}
processedOf(r, f) == {u.chunk : u \in {e \in upsertsOf(r, f) : e.result = "ok"}}
failedOf(r, f) ==
    {e.chunk : e \in passedOf(r, f, "rejected")}
    \cup {e.chunk : e \in {x \in embedsOf(r, f) : x.result \notin {"ok", "pending"}}}
    \cup {u.chunk : u \in {x \in upsertsOf(r, f) : x.result \notin {"ok", "pending"}}}

\* C30: in processPdfFile, at every point of the chunk loop and when the
\* document is finished, processedChunks + failedChunks + the chunks skipped as
\* too short is the number of chunks visited; every visited chunk is in exactly
\* one of the three groups; a chunk is counted as processed only if its
\* embedding and its upsert both succeeded; processedChunks is what is returned.
C30_ChunkAccounting ==
    IsProcessPdfFile =>
        /\ InChunkLoop =>
              /\ processedChunks + failedChunks + Cardinality(skippedOf(run, fileIdx)) = i
              /\ processedChunks = Cardinality(processedOf(run, fileIdx))
              /\ failedChunks = Cardinality(failedOf(run, fileIdx))
              /\ skippedOf(run, fileIdx) \cup processedOf(run, fileIdx)
                    \cup failedOf(run, fileIdx) = 0..(i - 1)
              /\ \A k \in processedOf(run, fileIdx) :
                    \E e \in embedsOf(run, fileIdx) : e.chunk = k /\ e.result = "ok"
        /\ \A r \in Runs : \A k \in 1..Len(reports[r]) :
              LET report == reports[r][k]
              IN  ~report.error =>
                     /\ report.processed = Cardinality(processedOf(r, report.file))
                     /\ report.processed + report.failed
                           + Cardinality(skippedOf(r, report.file)) = report.chunks

C30_Witness ==
    /\ IsProcessPdfFile
    /\ \E k \in 1..Len(reports[1]) :
          /\ ~reports[1][k].error
          /\ reports[1][k].processed >= 1
          /\ reports[1][k].failed >= 1
    /\ \E k \in 1..Len(reports[1]) :
          /\ ~reports[1][k].error
          /\ skippedOf(1, reports[1][k].file) # {}

====
